---- MODULE Spec2Model ----
(***************************************************************************)
(* compressfs: a transparent compression layer over a filesystem.          *)
(*                                                                         *)
(* The model covers the facade (FS.OpenFile, FS.ReadFile, FS.SetAlgorithm, *)
(* FS.SetLevel), the policy engine (shouldSkip, selectAlgorithm,           *)
(* autoTuneLevel), the name translator (AddExtension, ...), the compressed *)
(* handle (newCompressedFile, Read, Write, Close) and the in-memory        *)
(* filesystem the tests run on (memFS).                                    *)
(*                                                                         *)
(* File names are sequences of dot-separated components: <<"k","log">> is  *)
(* k.log and <<"k","log","gz">> is k.log.gz.  File contents are sequences  *)
(* of integers: 0..255 are bytes, values from 1000 up are the symbols of a *)
(* codec's compressed body (they never occur in caller data).              *)
(***************************************************************************)
EXTENDS Integers, Sequences, FiniteSets, TLC

(***************************************************************************)
(* Bounds of the model.                                                    *)
(***************************************************************************)
\* OpenFile/ReadFile calls in one behaviour
MaxOpens == 2
\* Write calls accepted on one handle
MaxWrites == 1
\* SetAlgorithm/SetLevel calls in one behaviour
MaxSets == 1
\* GetStats calls in one behaviour
MaxStatReads == 2
\* Rename, Remove and Truncate calls in one behaviour
MaxPathOps == 1
\* Seek, Sync, ReadAt, WriteAt and Truncate calls on one handle
MaxFileOps == 2

(***************************************************************************)
(* Algorithms (compressfs.go) and the extension tables.                    *)
(***************************************************************************)
AlgorithmGzip == "gzip"
AlgorithmZstd == "zstd"
AlgorithmLZ4 == "lz4"
AlgorithmBrotli == "brotli"
AlgorithmSnappy == "snappy"
NoAlgorithm == ""

Algorithms ==
    {AlgorithmGzip, AlgorithmZstd, AlgorithmLZ4, AlgorithmBrotli, AlgorithmSnappy}

\* the order in which the facade probes suffixes after the configured one
ProbeOrder ==
    <<AlgorithmGzip, AlgorithmZstd, AlgorithmLZ4, AlgorithmBrotli, AlgorithmSnappy>>

extensionMap ==
    [a \in Algorithms |->
        CASE a = AlgorithmGzip -> "gz"
          [] a = AlgorithmZstd -> "zst"
          [] a = AlgorithmLZ4 -> "lz4"
          [] a = AlgorithmBrotli -> "br"
          [] a = AlgorithmSnappy -> "sz"]

reverseExtensionMap ==
    [e \in {"gz", "gzip", "zst", "zstd", "lz4", "br", "sz", "snappy"} |->
        CASE e \in {"gz", "gzip"} -> AlgorithmGzip
          [] e \in {"zst", "zstd"} -> AlgorithmZstd
          [] e = "lz4" -> AlgorithmLZ4
          [] e = "br" -> AlgorithmBrotli
          [] e \in {"sz", "snappy"} -> AlgorithmSnappy]

magicBytes ==
    [a \in Algorithms |->
        CASE a = AlgorithmGzip -> <<31, 139>>
          [] a = AlgorithmZstd -> <<40, 181, 47, 253>>
          [] a = AlgorithmLZ4 -> <<4, 34, 77, 24>>
          [] a = AlgorithmBrotli -> <<206, 178, 207, 129>>
          [] a = AlgorithmSnappy -> <<255, 6, 0, 0, 115, 78, 97, 80>>]

\* strings.ToLower on one name component
ToLower(c) ==
    CASE c = "GZ" -> "gz"
      [] c = "ZST" -> "zst"
      [] OTHER -> c

Last(s) == s[Len(s)]
Front(s) == SubSeq(s, 1, Len(s) - 1)
Min(a, b) == IF a < b THEN a ELSE b

\* filepath.Ext without its dot: the last component of a name that has a
\* stem before it, "" when the name has no dot
Ext(name) == IF Len(name) > 1 THEN Last(name) ELSE ""

GetExtension(algo) == IF algo \in DOMAIN extensionMap THEN extensionMap[algo] ELSE ""

DetectAlgorithmFromExtension(name) ==
    LET ext == ToLower(Ext(name))
    IN IF ext \in DOMAIN reverseExtensionMap THEN reverseExtensionMap[ext] ELSE NoAlgorithm

HasCompressionExtension(name) == ToLower(Ext(name)) \in DOMAIN reverseExtensionMap

AddExtension(name, algo, preserveOriginal) ==
    LET ext == GetExtension(algo)
    IN IF ext = "" THEN name
       ELSE IF preserveOriginal THEN Append(name, ext)
       ELSE IF Len(name) > 1 THEN Append(Front(name), ext)
       ELSE Append(name, ext)

\* strings.TrimSuffix(name, lower-cased ext): strips only when the extension
\* is spelled in lower case
StripExtension(name) ==
    LET ext == ToLower(Ext(name))
    IN IF ext \in DOMAIN reverseExtensionMap
       THEN [name |-> IF Ext(name) = ext THEN Front(name) ELSE name,
             algo |-> reverseExtensionMap[ext], found |-> TRUE]
       ELSE [name |-> name, algo |-> NoAlgorithm, found |-> FALSE]

HasPrefix(s, p) == Len(s) >= Len(p) /\ SubSeq(s, 1, Len(p)) = p

\* IsCompressed: the algorithm whose magic bytes start the data, "" when
\* none does (no signature is a prefix of another, so the map's iteration
\* order does not matter)
IsCompressed(data) ==
    IF \E a \in Algorithms : HasPrefix(data, magicBytes[a])
    THEN CHOOSE a \in Algorithms : HasPrefix(data, magicBytes[a])
    ELSE NoAlgorithm

(***************************************************************************)
(* The codec factories.  The libraries are outside the repository;         *)
(* what the model keeps of them: an encoder's output starts with the       *)
(* codec's signature (gzip, zstd, lz4, snappy framed) or, for brotli, with *)
(* a window-bits header byte that is no codec's signature; the body is a   *)
(* run-length code of the input, so the output can be shorter than the     *)
(* input; a decoder returns the input for a stream of its own codec and    *)
(* fails on anything else.                                                 *)
(***************************************************************************)
RECURSIVE RunLength(_)
RunLength(data) ==
    IF Len(data) <= 1 THEN Len(data)
    ELSE IF data[2] = data[1] THEN 1 + RunLength(Tail(data))
    ELSE 1

RECURSIVE RunLengthCode(_)
RunLengthCode(data) ==
    IF data = <<>> THEN <<>>
    ELSE LET k == RunLength(data)
         IN <<1000 + 256 * k + data[1]>> \o RunLengthCode(SubSeq(data, k + 1, Len(data)))

RECURSIVE RunLengthExpand(_)
RunLengthExpand(body) ==
    IF body = <<>> THEN <<>>
    ELSE LET k == (body[1] - 1000) \div 256
             b == (body[1] - 1000) % 256
         IN [i \in 1..k |-> b] \o RunLengthExpand(Tail(body))

\* the first bytes an encoder of the algorithm writes
StreamHeader(algo) ==
    IF algo = AlgorithmBrotli THEN <<11>> ELSE magicBytes[algo]

\* createCompressorWithDict: the encoder for (algo, level), or an error.
\* gzip.NewWriterLevel rejects levels outside -2..9.
createCompressor(algo, level) ==
    CASE algo = AlgorithmGzip ->
            LET l == IF level < -2 THEN -1 ELSE level
            IN [err |-> l > 9, algo |-> algo, level |-> l]
      [] algo = AlgorithmZstd ->
            [err |-> FALSE, algo |-> algo,
             level |-> IF level <= 0 THEN 1
                       ELSE IF level <= 3 THEN 2
                       ELSE IF level <= 6 THEN 3 ELSE 4]
      [] algo = AlgorithmLZ4 -> [err |-> FALSE, algo |-> algo, level |-> 0]
      [] algo = AlgorithmBrotli ->
            [err |-> FALSE, algo |-> algo,
             level |-> IF level < 0 THEN 0 ELSE IF level > 11 THEN 11 ELSE level]
      [] algo = AlgorithmSnappy -> [err |-> FALSE, algo |-> algo, level |-> 0]
      [] OTHER -> [err |-> TRUE, algo |-> algo, level |-> level]

\* what io.Copy(compressor, buffer) followed by compressor.Close() writes
CompressedStream(algo, data) == StreamHeader(algo) \o RunLengthCode(data)

IsStreamOf(algo, content) ==
    /\ HasPrefix(content, StreamHeader(algo))
    /\ Len(content) > Len(StreamHeader(algo))
    /\ \A i \in (Len(StreamHeader(algo)) + 1)..Len(content) : content[i] >= 1000

\* createDecompressorWithDict on a file holding content: gzip.NewReader
\* reads the header at once and fails on anything that is not gzip; the
\* other decoders are built lazily and fail at the first Read instead.
\* out: the bytes the decoder will deliver; bad: its Read fails.
createDecompressor(algo, content) ==
    LET ok == algo \in Algorithms /\ IsStreamOf(algo, content)
    IN [err |-> (algo \notin Algorithms) \/ (algo = AlgorithmGzip /\ ~ok),
        bad |-> ~ok,
        out |-> IF ok
                THEN RunLengthExpand(SubSeq(content, Len(StreamHeader(algo)) + 1, Len(content)))
                ELSE <<>>]

(***************************************************************************)
(* Configuration.  Skip patterns and rules are compiled once by New and    *)
(* never change.  A pattern stands for an end-anchored regex: comps are    *)
(* the trailing name components it needs, dot says whether a dot (so a     *)
(* further component) must precede them.                                   *)
(***************************************************************************)
\* `\.jpg$`
SkipPatterns == << [dot |-> TRUE, comps |-> <<"jpg">>] >>

\* (`^k\.log$`, brotli, 11), (`\.log$`, lz4, -1)
AlgorithmRules ==
    << [pattern |-> [dot |-> FALSE, comps |-> <<"k", "log">>],
        algorithm |-> AlgorithmBrotli, level |-> 11],
       [pattern |-> [dot |-> TRUE, comps |-> <<"log">>],
        algorithm |-> AlgorithmLZ4, level |-> -1] >>

MatchString(pattern, name) ==
    LET n == Len(pattern.comps)
    IN /\ Len(name) >= n
       /\ SubSeq(name, Len(name) - n + 1, Len(name)) = pattern.comps
       /\ IF pattern.dot THEN Len(name) > n ELSE Len(name) = n

shouldSkip(name) ==
    \E i \in 1..Len(SkipPatterns) : MatchString(SkipPatterns[i], name)

getDefaultLevel(cfg, algo) ==
    CASE algo = AlgorithmGzip -> 6
      [] algo = AlgorithmZstd -> 3
      [] algo = AlgorithmLZ4 -> 1
      [] algo = AlgorithmBrotli -> 6
      [] algo = AlgorithmSnappy -> 0
      [] OTHER -> cfg.Level

\* a table that already gives the lower level to a file of exactly ten
\* megabytes
autoTuneLevelFrom(cfg, algo, fileSize) ==
    IF fileSize < cfg.AutoTuneSizeThreshold THEN cfg.Level
    ELSE CASE algo = AlgorithmGzip -> IF fileSize >= 10 * 1024 * 1024 THEN 3 ELSE 4
           [] algo = AlgorithmZstd -> IF fileSize >= 10 * 1024 * 1024 THEN 1 ELSE 2
           [] algo = AlgorithmBrotli -> IF fileSize >= 10 * 1024 * 1024 THEN 3 ELSE 4
           [] algo = AlgorithmLZ4 -> 1
           [] algo = AlgorithmSnappy -> 0
           [] OTHER -> cfg.Level

autoTuneLevel(cfg, algo, fileSize) ==
    IF fileSize < cfg.AutoTuneSizeThreshold THEN cfg.Level
    ELSE CASE algo = AlgorithmGzip -> IF fileSize > 10 * 1024 * 1024 THEN 3 ELSE 4
           [] algo = AlgorithmZstd -> IF fileSize > 10 * 1024 * 1024 THEN 1 ELSE 2
           [] algo = AlgorithmBrotli -> IF fileSize > 10 * 1024 * 1024 THEN 3 ELSE 4
           [] algo = AlgorithmLZ4 -> 1
           [] algo = AlgorithmSnappy -> 0
           [] OTHER -> cfg.Level

\* the index of the last rule of the list whose pattern matches, 0 when none
\* does
lastMatch(rules, name) ==
    IF \E i \in 1..Len(rules) : MatchString(rules[i].pattern, name)
    THEN CHOOSE i \in 1..Len(rules) :
            /\ MatchString(rules[i].pattern, name)
            /\ \A j \in (i + 1)..Len(rules) : ~MatchString(rules[j].pattern, name)
    ELSE 0

\* the loop over cfs.rules: the index of the first rule whose pattern
\* matches, 0 when none does
firstMatch(rules, name) ==
    IF \E i \in 1..Len(rules) : MatchString(rules[i].pattern, name)
    THEN CHOOSE i \in 1..Len(rules) :
            /\ MatchString(rules[i].pattern, name)
            /\ \A j \in 1..(i - 1) : ~MatchString(rules[j].pattern, name)
    ELSE 0

\* selectAlgorithm of a facade whose compiled rules are the given list
selectAlgorithmIn(rules, cfg, name, fileSize) ==
    LET r == firstMatch(rules, name)
    IN IF r # 0
       THEN [algo |-> rules[r].algorithm,
             level |-> IF rules[r].level < 0
                       THEN getDefaultLevel(cfg, rules[r].algorithm)
                       ELSE rules[r].level,
             useDefaults |-> FALSE]
       ELSE [algo |-> cfg.Algorithm,
             level |-> IF cfg.EnableAutoTuning /\ fileSize > 0
                       THEN autoTuneLevel(cfg, cfg.Algorithm, fileSize)
                       ELSE cfg.Level,
             useDefaults |-> TRUE]

\* the index of the first rule whose pattern matches, 0 when none does
FirstMatchingRule(name) == firstMatch(AlgorithmRules, name)

selectAlgorithm(cfg, name, fileSize) ==
    selectAlgorithmIn(AlgorithmRules, cfg, name, fileSize)

(***************************************************************************)
(* Inputs of the model.                                                    *)
(***************************************************************************)
\* a default-policy name, a name both rules match, a name only the second
\* rule matches, a name the skip pattern matches
LogicalNames == { <<"a">>, <<"k", "log">>, <<"m", "log">>, <<"i", "jpg">> }

\* what one Write call passes: a byte, a run that compresses, and data that
\* happens to begin with the gzip signature
Chunks == { <<65>>, <<97, 97, 97, 97>>, <<31, 139>> }

\* level 0, a level every codec takes, and a level above gzip's range
Levels == {0, 6, 10}

\* os.O_RDONLY, and Create's os.O_RDWR|os.O_CREATE|os.O_TRUNC
Flags == {"O_RDONLY", "O_CREATE"}

\* buffer sizes a caller passes to Read
ReadSizes == {3, 16}

Configs ==
    [Algorithm : Algorithms, Level : Levels, MinSize : {0, 4},
     AutoDetect : BOOLEAN, PreserveExtension : {TRUE}, StripExtension : {TRUE},
     EnableAutoTuning : BOOLEAN, AutoTuneSizeThreshold : {2}]

(***************************************************************************)
(* State.                                                                  *)
(***************************************************************************)
VARIABLES
    config,     \* FS.config: the configuration, Algorithm and Level mutable
    files,      \* memFS.files: physical name -> content
    cf,         \* the compressedFile handles
    stats,      \* FS.stats
    opens,      \* facade opens made so far
    sets,       \* configuration changes made so far
    lastWrite,  \* history: logical name -> the last write session closed on it
    res         \* history: the result of the last facade call (for ReadFile
                \* also the logical content: all a handle on the file delivers)

vars == <<config, files, cf, stats, opens, sets, lastWrite, res>>

HandleIds == {"h1"}

NoDecoder == [kind |-> "none", out |-> <<>>]
NoEncoder == [built |-> FALSE, algo |-> NoAlgorithm, level |-> 0, err |-> FALSE]

NoHandle ==
    [exists |-> FALSE, flag |-> "O_RDONLY", originalName |-> <<>>, compressedName |-> <<>>,
     hasBuffer |-> FALSE, writeBuffer |-> <<>>, writeAlgo |-> NoAlgorithm, writeLevel |-> 0,
     shouldCompress |-> FALSE, decompressor |-> NoDecoder, readAlgo |-> NoAlgorithm,
     bytesRead |-> 0, bytesWritten |-> 0, closed |-> FALSE,
     basePos |-> 0, baseCloses |-> 0,
     \* the base handle's own buffer, once WriteAt or Truncate replaced it
     detached |-> FALSE, own |-> <<>>,
     \* Seek, Sync, ReadAt, WriteAt and Truncate calls made on the handle
     calls |-> 0,
     \* history of the calls made on the handle
     writes |-> 0, data |-> <<>>, got |-> <<>>, lastN |-> 0, lastErr |-> "nil",
     closeCalls |-> 0, closeErr |-> "nil", lastCloseErr |-> "nil", encoder |-> NoEncoder]

NoWrite == [done |-> FALSE, ok |-> FALSE, data |-> <<>>]
\* the counters GetStats returns (the per-algorithm counts are not copied)
Counters ==
    {"FilesCompressed", "FilesDecompressed", "FilesSkipped",
     "BytesRead", "BytesWritten", "BytesCompressed", "BytesDecompressed"}
ZeroCounters == [f \in Counters |-> 0]

\* what the last facade call returned (op, name, err, data, logical, the
\* physical name it acted on, the names a listing returned), the number of
\* Rename, Remove and Truncate calls made, and the last two values GetStats
\* returned
NoResult ==
    [op |-> "none", name |-> <<>>, err |-> "nil", data |-> <<>>, logical |-> <<>>,
     target |-> <<>>, entries |-> <<>>, calls |-> 0,
     reads |-> 0, seen |-> ZeroCounters, prev |-> ZeroCounters,
     resetSince |-> FALSE, resetBetween |-> FALSE]

ZeroStats ==
    [FilesCompressed |-> 0, FilesDecompressed |-> 0, FilesSkipped |-> 0,
     BytesRead |-> 0, BytesWritten |-> 0, BytesCompressed |-> 0, BytesDecompressed |-> 0,
     AlgorithmCounts |-> [a \in Algorithms |-> 0]]

Init ==
    /\ config \in Configs
    /\ files = << >>
    /\ cf = [h \in HandleIds |-> NoHandle]
    /\ stats = ZeroStats
    /\ opens = 0
    /\ sets = 0
    /\ lastWrite = [n \in LogicalNames |-> NoWrite]
    /\ res = NoResult

(***************************************************************************)
(* memFS                                                                   *)
(***************************************************************************)
Exists(fs, name) == name \in DOMAIN fs

\* memFS.OpenFile: O_CREATE adds a missing file, O_TRUNC empties it
memOpenFile(fs, name, flag) ==
    IF flag = "O_CREATE"
    THEN [err |-> FALSE, fs |-> [n \in DOMAIN fs \cup {name} |-> IF n = name THEN <<>> ELSE fs[n]]]
    ELSE [err |-> ~Exists(fs, name), fs |-> fs]

\* memFile.Write appends to the file's data
memWrite(fs, name, p) ==
    [n \in DOMAIN fs \cup {name} |->
        IF n = name THEN (IF Exists(fs, name) THEN fs[name] ELSE <<>>) \o p ELSE fs[n]]

\* memFS.Rename: fails when oldpath is missing; otherwise stores the file
\* under newpath, replacing what was there, and then deletes oldpath
memRename(fs, oldpath, newpath) ==
    IF ~Exists(fs, oldpath) THEN fs
    ELSE [n \in (DOMAIN fs \cup {newpath}) \ {oldpath} |->
            IF n = newpath THEN fs[oldpath] ELSE fs[n]]

(***************************************************************************)
(* FS.OpenFile and newCompressedFile                                       *)
(***************************************************************************)
\* a probe that tries config.Algorithm after the other algorithms
CandidatesDefaultsFirst(cfg) == ProbeOrder \o <<cfg.Algorithm>>

\* the suffix probe of a read: config.Algorithm first, then every algorithm
Candidates(cfg) == <<cfg.Algorithm>> \o ProbeOrder

\* the physical name OpenFile opens and the algorithm it passes on
ResolveName(cfg, fs, name, flag) ==
    LET isCreate == flag = "O_CREATE"
        isWrite == flag = "O_CREATE"
        cands == Candidates(cfg)
        hits == {i \in 1..Len(cands) :
                    /\ GetExtension(cands[i]) # ""
                    /\ Exists(fs, Append(name, GetExtension(cands[i])))}
    IN IF (isCreate \/ isWrite) /\ ~shouldSkip(name)
       THEN IF ~HasCompressionExtension(name)
            THEN [actualName |-> AddExtension(name, cfg.Algorithm, cfg.PreserveExtension),
                  detectedAlgo |-> cfg.Algorithm]
            ELSE [actualName |-> name, detectedAlgo |-> NoAlgorithm]
       ELSE IF cfg.StripExtension /\ hits # {}
            THEN LET i == CHOOSE i \in hits : \A j \in hits : i <= j
                 IN [actualName |-> Append(name, GetExtension(cands[i])),
                     detectedAlgo |-> cands[i]]
            ELSE [actualName |-> name, detectedAlgo |-> NoAlgorithm]

\* the read-side setup of newCompressedFile for a file holding content
\* (memFile.Read and Seek do not fail): the probe of the first 10 bytes,
\* the choice of the decoder, and where the underlying offset is left.
\* A decoder whose construction fails has consumed the file through its
\* read buffer (bufio, 4096 bytes).
ReadSetup(cfg, name, algo, content) ==
    LET skipOrNone == shouldSkip(name) \/ algo = NoAlgorithm
        detected == IsCompressed(SubSeq(content, 1, Min(10, Len(content))))
        plain == [shouldCompress |-> FALSE, decompressor |-> NoDecoder,
                  readAlgo |-> algo, basePos |-> 0]
        with(useAlgo, keepAlgo) ==
            LET d == createDecompressor(useAlgo, content)
            IN IF d.err
               THEN [shouldCompress |-> FALSE, decompressor |-> NoDecoder,
                     readAlgo |-> keepAlgo, basePos |-> Min(Len(content), 4096)]
               ELSE [shouldCompress |-> ~skipOrNone,
                     decompressor |-> [kind |-> IF d.bad THEN "bad" ELSE "ok", out |-> d.out],
                     readAlgo |-> useAlgo, basePos |-> 0]
    IN IF content = <<>>
       THEN [plain EXCEPT !.shouldCompress = ~skipOrNone]
       ELSE IF ~skipOrNone
       THEN IF detected # NoAlgorithm THEN with(detected, algo)
            ELSE IF algo \in {AlgorithmBrotli, AlgorithmSnappy} THEN with(algo, algo)
            ELSE plain
       ELSE IF cfg.AutoDetect
       THEN IF detected # NoAlgorithm THEN with(detected, detected) ELSE plain
       ELSE [plain EXCEPT !.shouldCompress = ~skipOrNone]

newCompressedFile(cfg, name, actualName, flag, algo, content) ==
    LET isCreate == flag = "O_CREATE"
        isWrite == flag = "O_CREATE"
        isReadOnly == flag = "O_RDONLY"
        shouldCompress == ~shouldSkip(name) /\ algo # NoAlgorithm
        staged == isWrite /\ shouldCompress
        rd == IF isReadOnly /\ ~isCreate
              THEN ReadSetup(cfg, name, algo, content)
              ELSE [shouldCompress |-> shouldCompress, decompressor |-> NoDecoder,
                    readAlgo |-> algo, basePos |-> 0]
    IN [NoHandle EXCEPT
          !.exists = TRUE, !.flag = flag,
          !.originalName = name, !.compressedName = actualName,
          !.hasBuffer = staged,
          !.writeAlgo = IF staged /\ algo = NoAlgorithm
                        THEN selectAlgorithm(cfg, name, 0).algo ELSE algo,
          !.writeLevel = IF ~staged THEN 0
                         ELSE IF algo = NoAlgorithm
                         THEN selectAlgorithm(cfg, name, 0).level ELSE cfg.Level,
          !.shouldCompress = rd.shouldCompress,
          !.decompressor = rd.decompressor,
          !.readAlgo = rd.readAlgo,
          !.basePos = rd.basePos]

OpenFile(h, name, flag) ==
    LET r == ResolveName(config, files, name, flag)
        o == memOpenFile(files, r.actualName, flag)
    IN /\ opens < MaxOpens
       /\ ~cf[h].exists \/ cf[h].closed
       /\ opens' = opens + 1
       /\ res' = [res EXCEPT !.op = "OpenFile", !.name = name,
                  !.err = IF o.err THEN "notexist" ELSE "nil", !.data = <<>>,
                  !.logical = <<>>,
                  !.target = <<>>, !.entries = <<>>]
       /\ IF o.err
          THEN UNCHANGED <<files, cf>>
          ELSE /\ files' = o.fs
               /\ cf' = [cf EXCEPT ![h] =
                    newCompressedFile(config, name, r.actualName, flag, r.detectedAlgo,
                                      o.fs[r.actualName])]
       /\ UNCHANGED <<config, stats, sets, lastWrite>>

(***************************************************************************)
(* compressedFile.Read, Write, Close                                       *)
(***************************************************************************)
\* a counter update that stores the amount instead of adding it
AddStatStore(st, field, n) == [st EXCEPT ![field] = n]

\* atomic.AddInt64 on one counter
AddStat(st, field, n) == [st EXCEPT ![field] = @ + n]
IncrementAlgorithmCount(st, algo) ==
    IF algo \in Algorithms
    THEN [st EXCEPT !.AlgorithmCounts[algo] = @ + 1]
    ELSE st

\* the content of the base handle's buffer: the stored file's, or the
\* handle's own once WriteAt or Truncate replaced it
BaseContent(fs, c) ==
    IF c.detached THEN c.own
    ELSE IF Exists(fs, c.compressedName) THEN fs[c.compressedName] ELSE <<>>

\* memFile.Write on the base handle: what it leaves in the store
baseWrite(fs, c, p) == IF c.detached THEN fs ELSE memWrite(fs, c.compressedName, p)

\* a staged Write that also goes through to the underlying file
writeThrough(fs, c, p) == baseWrite(fs, c, p)

\* bytes.Buffer.Write on the staging buffer: what it leaves in the store
bufferWrite(fs, c, p) == fs

\* a Read that hands on what the decoder returned
decoderErr(n, err) == err

\* the error Read returns for what the decoder returned: with n > 0 the
\* handle turns io.EOF into nil
readErr(n, err) == IF n > 0 /\ err = "EOF" THEN "nil" ELSE err

\* Read into a buffer of size k.  A decoder may report end-of-stream along
\* with the last bytes (withLast) or on the call after them.
Read(h, k) ==
    LET c == cf[h]
        plainRest == SubSeq(BaseContent(files, c), c.basePos + 1, Len(BaseContent(files, c)))
        src == IF c.decompressor.kind = "ok" THEN c.decompressor.out ELSE plainRest
        n == Min(k, Len(src))
    IN /\ c.exists
       /\ c.flag = "O_RDONLY"
       /\ IF c.closed
          THEN cf' = [cf EXCEPT ![h].lastN = 0, ![h].lastErr = "closed"]
               /\ UNCHANGED stats
          ELSE IF c.decompressor.kind = "bad"
          THEN cf' = [cf EXCEPT ![h].lastN = 0, ![h].lastErr = "corrupt"]
               /\ UNCHANGED stats
          ELSE IF n = 0
          THEN cf' = [cf EXCEPT ![h].lastN = 0, ![h].lastErr = "EOF"]
               /\ UNCHANGED stats
          ELSE /\ \E withLast \in BOOLEAN :
                    cf' = [cf EXCEPT
                        ![h].lastN = n,
                        ![h].lastErr =
                            IF c.decompressor.kind = "ok"
                            THEN readErr(n, IF withLast /\ n = Len(src)
                                            THEN "EOF" ELSE "nil")
                            ELSE "nil",
                        ![h].got = @ \o SubSeq(src, 1, n),
                        ![h].bytesRead = @ + n,
                        ![h].basePos = IF c.decompressor.kind = "ok" THEN @ ELSE @ + n,
                        ![h].decompressor.out =
                            IF c.decompressor.kind = "ok"
                            THEN SubSeq(src, n + 1, Len(src)) ELSE @]
               /\ stats' = AddStat(stats, "BytesRead", n)
       /\ UNCHANGED <<config, files, opens, sets, lastWrite, res>>

Write(h, p) ==
    LET c == cf[h]
    IN /\ c.exists
       /\ c.flag = "O_CREATE"
       /\ c.writes < MaxWrites
       /\ IF c.closed
          THEN /\ cf' = [cf EXCEPT ![h].lastN = 0, ![h].lastErr = "closed"]
               /\ UNCHANGED <<files, stats>>
          ELSE IF c.shouldCompress /\ c.hasBuffer
          THEN /\ cf' = [cf EXCEPT
                            ![h].writeBuffer = @ \o p,
                            ![h].bytesWritten = @ + Len(p),
                            ![h].writes = @ + 1, ![h].data = @ \o p,
                            ![h].lastN = Len(p), ![h].lastErr = "nil"]
               /\ files' = bufferWrite(files, c, p)
               /\ UNCHANGED stats
          ELSE /\ files' = baseWrite(files, c, p)
               /\ cf' = [cf EXCEPT
                            ![h].own = IF c.detached THEN @ \o p ELSE @,
                            ![h].bytesWritten = @ + Len(p),
                            ![h].writes = @ + 1, ![h].data = @ \o p,
                            ![h].lastN = Len(p), ![h].lastErr = "nil"]
               /\ stats' = AddStat(stats, "BytesWritten", Len(p))
       /\ UNCHANGED <<config, opens, sets, lastWrite, res>>

\* the level handed to the encoder at Close: the level selectAlgorithm gives
\* for the final size, replaced by the handle's writeLevel when that is not 0
FinalLevel(c, selected) == IF c.writeLevel # 0 THEN c.writeLevel ELSE selected.level

\* a strict test on the staged size: a buffer of exactly min_size bytes
\* would be left as it is
meetsMinSizeStrict(cfg, bufLen) == bufLen > 0 /\ bufLen > cfg.MinSize

\* a test on the staged size that lets an empty buffer through to the encoder
meetsMinSizeOrEmpty(cfg, bufLen) == bufLen >= cfg.MinSize

\* Close's test on the staged size: encode, or leave the bytes as they are
meetsMinSize(cfg, bufLen) == bufLen > 0 /\ bufLen >= cfg.MinSize

\* a Close that returns the encoder's error without releasing anything
NothingReleased == <<>>

\* what Close releases when the encoder cannot be built: the underlying
\* file
EncoderFailedReleases == <<"base.Close">>

\* filerAdapter.Rename: os.ErrPermission, the store is left as it is
adapterRename(fs, oldpath, newpath) == fs

\* cfs.base.Rename: memFS's, or filerAdapter's when the base has only the
\* old FileSystem interface
baseRename(base, fs, oldpath, newpath) ==
    IF base = "filerAdapter" THEN adapterRename(fs, oldpath, newpath)
    ELSE memRename(fs, oldpath, newpath)

\* the first Close of a handle over the base: what it leaves in the store,
\* the counters and the handle.  fault names the call of the path that fails,
\* if one does: "copy" (io.Copy into the encoder), "encoderClose",
\* "decoderClose", "baseClose", or "none".  released lists the Close and
\* Rename calls Close makes, in order.
CloseEffectIn(base, fault, cfg, fs, st, c) ==
    LET bufLen == Len(c.writeBuffer)
        sel == selectAlgorithm(cfg, c.originalName, bufLen)
        enc == createCompressor(sel.algo, FinalLevel(c, sel))
        encUsed == [built |-> ~enc.err, algo |-> sel.algo,
                    level |-> FinalLevel(c, sel), err |-> enc.err]
        rename == c.compressedName # c.originalName
                    /\ HasCompressionExtension(c.compressedName)
        baseErr == IF fault = "baseClose" THEN "baseClose" ELSE "nil"
        tail(fs1, st1, c1, err, log) ==
            \* the decompressor, then the underlying file
            LET dec == c1.decompressor.kind # "none"
                st2 == IF dec
                       THEN IncrementAlgorithmCount(
                                AddStat(AddStat(st1, "FilesDecompressed", 1),
                                        "BytesDecompressed", c1.bytesRead),
                                c1.readAlgo)
                       ELSE st1
                err2 == IF err = "nil" /\ dec /\ fault = "decoderClose"
                        THEN "decoderClose" ELSE err
            IN [fs |-> fs1, st |-> st2,
                c |-> [c1 EXCEPT !.baseCloses = @ + 1,
                                 !.closeErr = IF err2 = "nil" THEN baseErr ELSE err2],
                released |-> log \o (IF dec THEN <<"decoder.Close">> ELSE <<>>)
                                \o <<"base.Close">>]
    IN IF c.shouldCompress /\ c.hasBuffer
       THEN IF meetsMinSize(cfg, bufLen)
            THEN IF enc.err
                 THEN [fs |-> fs, st |-> st,
                       c |-> [c EXCEPT !.baseCloses = @ + Len(EncoderFailedReleases),
                                       !.closeErr = "encoder",
                                       !.encoder = encUsed],
                       released |-> EncoderFailedReleases]
                 ELSE IF fault = "copy"
                 THEN [fs |-> fs, st |-> st,
                       c |-> [c EXCEPT !.baseCloses = @ + 1, !.closeErr = "copy",
                                       !.encoder = encUsed],
                       released |-> <<"encoder.Close", "base.Close">>]
                 ELSE IF fault = "encoderClose"
                 THEN [fs |-> baseWrite(fs, c, CompressedStream(sel.algo, c.writeBuffer)),
                       st |-> st,
                       c |-> [c EXCEPT !.writeBuffer = <<>>, !.baseCloses = @ + 1,
                                       !.closeErr = "encoderClose",
                                       !.encoder = encUsed],
                       released |-> <<"encoder.Close", "base.Close">>]
                 ELSE tail(baseWrite(fs, c,
                                     CompressedStream(sel.algo, c.writeBuffer)),
                           IncrementAlgorithmCount(
                               AddStat(AddStat(AddStat(st, "FilesCompressed", 1),
                                               "BytesWritten", c.bytesWritten),
                                       "BytesCompressed", c.bytesWritten),
                               sel.algo),
                           [c EXCEPT !.writeBuffer = <<>>, !.encoder = encUsed],
                           "nil", <<"encoder.Close">>)
            ELSE IF bufLen > 0
            THEN IF rename
                 THEN [fs |-> baseRename(base, baseWrite(fs, c, c.writeBuffer),
                                 c.compressedName, c.originalName),
                       st |-> AddStat(st, "FilesSkipped", 1),
                       c |-> [c EXCEPT !.writeBuffer = <<>>, !.baseCloses = @ + 1,
                                       !.closeErr = baseErr],
                       released |-> <<"base.Close", "Rename">>]
                 ELSE tail(baseWrite(fs, c, c.writeBuffer),
                           AddStat(st, "FilesSkipped", 1),
                           [c EXCEPT !.writeBuffer = <<>>], "nil", <<>>)
            ELSE tail(fs, st, c, "nil", <<>>)
       ELSE tail(fs, st, c, "nil", <<>>)

\* Close when no call it makes fails, apart from the encoder's construction
\* and the store's Rename
CloseEffectWith(base, cfg, fs, st, c) ==
    CloseEffectIn(base, "none", cfg, fs, st, c)

\* Close over memFS
CloseEffect(cfg, fs, st, c) == CloseEffectWith("memFS", cfg, fs, st, c)

Close(h) ==
    LET c == cf[h]
        e == CloseEffect(config, files, stats, c)
    IN /\ c.exists
       /\ c.closeCalls < 2
       /\ IF c.closed
          THEN /\ cf' = [cf EXCEPT ![h].closeCalls = @ + 1, ![h].lastCloseErr = "nil"]
               /\ UNCHANGED <<files, stats, lastWrite>>
          ELSE /\ files' = e.fs
               /\ stats' = e.st
               /\ cf' = [cf EXCEPT ![h] =
                            [e.c EXCEPT !.closed = TRUE, !.closeCalls = 1,
                                        !.lastCloseErr = e.c.closeErr]]
               /\ lastWrite' =
                    IF c.flag = "O_CREATE"
                    THEN [lastWrite EXCEPT ![c.originalName] =
                            [done |-> TRUE, ok |-> e.c.closeErr = "nil", data |-> c.data]]
                    ELSE lastWrite
       /\ UNCHANGED <<config, opens, sets, res>>

(***************************************************************************)
(* FS.ReadFile: Open, a buffer of the size Stat reports for the open file  *)
(* (the physical size), io.ReadFull into it, and the deferred Close.       *)
(***************************************************************************)
\* what ReadFile returns for an open handle c over a file holding content
ReadFileResult(c, content) ==
    LET size == Len(content)
        src == IF c.decompressor.kind = "ok" THEN c.decompressor.out
               ELSE SubSeq(content, c.basePos + 1, Len(content))
        n == IF c.decompressor.kind = "bad" THEN 0 ELSE Min(size, Len(src))
    IN IF size > 0
       THEN \* io.ReadFull(f, buf) with len(buf) = size
            IF c.decompressor.kind = "bad"
            THEN [err |-> "corrupt", data |-> <<>>, n |-> 0, logical |-> <<>>]
            ELSE IF n = 0 THEN [err |-> "EOF", data |-> <<>>, n |-> 0, logical |-> src]
            ELSE [err |-> "nil", data |-> SubSeq(src, 1, n), n |-> n, logical |-> src]
       ELSE \* io.ReadAll(f)
            IF c.decompressor.kind = "bad"
            THEN [err |-> "corrupt", data |-> <<>>, n |-> 0, logical |-> <<>>]
            ELSE [err |-> "nil", data |-> src, n |-> Len(src), logical |-> src]

ReadFile(name) ==
    LET r == ResolveName(config, files, name, "O_RDONLY")
        o == memOpenFile(files, r.actualName, "O_RDONLY")
        c == newCompressedFile(config, name, r.actualName, "O_RDONLY", r.detectedAlgo,
                               files[r.actualName])
        out == ReadFileResult(c, files[r.actualName])
        c1 == [c EXCEPT !.bytesRead = out.n]
        e == CloseEffect(config, files, AddStat(stats, "BytesRead", out.n), c1)
    IN /\ opens < MaxOpens
       /\ \A h \in HandleIds : ~cf[h].exists \/ cf[h].closed
       /\ opens' = opens + 1
       /\ IF o.err
          THEN /\ res' = [res EXCEPT !.op = "ReadFile", !.name = name, !.err = "notexist",
                            !.data = <<>>, !.logical = <<>>,
                            !.target = <<>>, !.entries = <<>>]
               /\ UNCHANGED stats
          ELSE /\ res' = [res EXCEPT !.op = "ReadFile", !.name = name, !.err = out.err,
                            !.data = out.data, !.logical = out.logical,
                            !.target = <<>>, !.entries = <<>>]
               /\ stats' = e.st
       /\ UNCHANGED <<config, files, cf, sets, lastWrite>>

(***************************************************************************)
(* FS.SetAlgorithm, FS.SetLevel                                            *)
(***************************************************************************)
\* (a change made before the first open is an initial configuration)
SetAlgorithm(algo) ==
    /\ sets < MaxSets
    /\ opens > 0
    /\ sets' = sets + 1
    /\ config' = [config EXCEPT !.Algorithm = algo]
    /\ UNCHANGED <<files, cf, stats, opens, lastWrite, res>>

SetLevel(level) ==
    /\ sets < MaxSets
    /\ opens > 0
    /\ sets' = sets + 1
    /\ config' = [config EXCEPT !.Level = level]
    /\ UNCHANGED <<files, cf, stats, opens, lastWrite, res>>

Next ==
    \/ \E h \in HandleIds, name \in LogicalNames, flag \in Flags : OpenFile(h, name, flag)
    \/ \E h \in HandleIds, k \in ReadSizes : Read(h, k)
    \/ \E h \in HandleIds, p \in Chunks : Write(h, p)
    \/ \E h \in HandleIds : Close(h)
    \/ \E name \in LogicalNames : ReadFile(name)
    \/ \E algo \in Algorithms : SetAlgorithm(algo)
    \/ \E level \in Levels : SetLevel(level)

Spec == Init /\ [][Next]_vars

(***************************************************************************)
(* The rest of the facade: FS.GetStats, FS.ResetStats, FS.Rename,          *)
(* FS.Remove, FS.Stat, FS.Truncate, FS.ReadDir.                            *)
(***************************************************************************)
\* a facade call that returns nothing but an error
Returned(op, name, err, target) ==
    [res EXCEPT !.op = op, !.name = name, !.err = err, !.data = <<>>,
                !.logical = <<>>, !.target = target, !.entries = <<>>]

\* GetStats: a copy of the seven counters
GetStats ==
    /\ res.reads < MaxStatReads
    /\ res' = [Returned("GetStats", <<>>, "nil", <<>>) EXCEPT
                  !.reads = @ + 1,
                  !.prev = res.seen,
                  !.seen = [f \in Counters |-> stats[f]],
                  !.resetBetween = res.resetSince,
                  !.resetSince = FALSE]
    /\ UNCHANGED <<config, files, cf, stats, opens, sets, lastWrite>>

\* ResetStats: every counter back to zero, the per-algorithm counts cleared
ResetStats ==
    /\ stats' = ZeroStats
    /\ res' = [Returned("ResetStats", <<>>, "nil", <<>>) EXCEPT !.resetSince = TRUE]
    /\ UNCHANGED <<config, files, cf, opens, sets, lastWrite>>

\* A specification of the counters: the handle operations with GetStats and
\* ResetStats, under gzip at level 6 without auto-tuning and auto-detection.
StatsConfigs ==
    {c \in Configs : /\ c.Algorithm = AlgorithmGzip /\ c.Level = 6
                     /\ ~c.EnableAutoTuning /\ ~c.AutoDetect}

InitStats ==
    /\ config \in StatsConfigs
    /\ files = << >>
    /\ cf = [h \in HandleIds |-> NoHandle]
    /\ stats = ZeroStats
    /\ opens = 0
    /\ sets = 0
    /\ lastWrite = [n \in LogicalNames |-> NoWrite]
    /\ res = NoResult

NextStats ==
    \/ \E h \in HandleIds, name \in LogicalNames, flag \in Flags : OpenFile(h, name, flag)
    \/ \E h \in HandleIds, k \in ReadSizes : Read(h, k)
    \/ \E h \in HandleIds, p \in Chunks : Write(h, p)
    \/ \E h \in HandleIds : Close(h)
    \/ GetStats
    \/ ResetStats

SpecStats == InitStats /\ [][NextStats]_vars

(***************************************************************************)
(* A specification of the directory view: the handle operations with       *)
(* FS.Rename, FS.Remove, FS.Stat, FS.Chmod, FS.Truncate and FS.ReadDir.    *)
(***************************************************************************)
\* the suffix probe of the path operations: the first algorithm of the probe
\* list whose suffixed form of name exists, "" when none does
FirstCandidate(cfg, fs, name) ==
    LET cands == Candidates(cfg)
        hits == {i \in 1..Len(cands) :
                    /\ GetExtension(cands[i]) # ""
                    /\ Exists(fs, Append(name, GetExtension(cands[i])))}
    IN IF cfg.StripExtension /\ hits # {}
       THEN cands[CHOOSE i \in hits : \A j \in hits : i <= j]
       ELSE NoAlgorithm

\* Rename, Remove and Truncate are taken while no handle is open (the store
\* maps names to contents: a handle on a file that was renamed or removed
\* is not represented)
NoOpenHandle == \A h \in HandleIds : ~cf[h].exists \/ cf[h].closed

\* FS.Rename: the physical names the underlying Rename is called with
RenameNames(cfg, fs, oldpath, newpath) ==
    LET algo == FirstCandidate(cfg, fs, oldpath)
    IN IF algo # NoAlgorithm
       THEN [old |-> Append(oldpath, GetExtension(algo)),
             new |-> IF ~HasCompressionExtension(newpath)
                     THEN Append(newpath, GetExtension(algo)) ELSE newpath]
       ELSE [old |-> oldpath, new |-> newpath]

Rename(oldpath, newpath) ==
    LET t == RenameNames(config, files, oldpath, newpath)
        ok == Exists(files, t.old)
    IN /\ res.calls < MaxPathOps
       /\ NoOpenHandle
       /\ files' = memRename(files, t.old, t.new)
       /\ res' = [Returned("Rename", oldpath, IF ok THEN "nil" ELSE "notexist",
                           IF ok THEN t.new ELSE <<>>) EXCEPT !.calls = @ + 1]
       /\ UNCHANGED <<config, cf, stats, opens, sets, lastWrite>>

\* memFS.Remove
memRemove(fs, name) == [n \in DOMAIN fs \ {name} |-> fs[n]]

\* the physical name a path operation that tries the name as it is first
\* ends up acting on, <<>> when every attempt fails
VerbatimFirst(cfg, fs, name) ==
    IF Exists(fs, name) THEN name
    ELSE IF FirstCandidate(cfg, fs, name) # NoAlgorithm
    THEN Append(name, GetExtension(FirstCandidate(cfg, fs, name)))
    ELSE <<>>

\* the physical name FS.Truncate acts on: the first suffixed form that
\* exists, the name as it is otherwise
ProbeFirst(cfg, fs, name) ==
    IF FirstCandidate(cfg, fs, name) # NoAlgorithm
    THEN Append(name, GetExtension(FirstCandidate(cfg, fs, name)))
    ELSE name

Remove(name) ==
    LET t == VerbatimFirst(config, files, name)
    IN /\ res.calls < MaxPathOps
       /\ NoOpenHandle
       /\ files' = IF t = <<>> THEN files ELSE memRemove(files, t)
       /\ res' = [Returned("Remove", name, IF t = <<>> THEN "notexist" ELSE "nil", t)
                    EXCEPT !.calls = @ + 1]
       /\ UNCHANGED <<config, cf, stats, opens, sets, lastWrite>>

\* Stat: the size of the file found goes to res.data's length
Stat(name) ==
    LET t == VerbatimFirst(config, files, name)
    IN /\ res' = [Returned("Stat", name, IF t = <<>> THEN "notexist" ELSE "nil", t)
                    EXCEPT !.data = IF t = <<>> THEN <<>> ELSE files[t]]
       /\ UNCHANGED <<config, files, cf, stats, opens, sets, lastWrite>>

\* Chmod (Chtimes and Chown have the same shape): the mode is not part of
\* the state, the file changed is recorded
Chmod(name) ==
    LET t == VerbatimFirst(config, files, name)
    IN /\ res' = Returned("Chmod", name, IF t = <<>> THEN "notexist" ELSE "nil", t)
       /\ UNCHANGED <<config, files, cf, stats, opens, sets, lastWrite>>

\* sizes passed to Truncate
TruncateSizes == {0}

\* the underlying filesystem's Truncate: the file is cut, or extended with
\* zero bytes, to size
baseTruncate(fs, name, size) ==
    [n \in DOMAIN fs |->
        IF n = name
        THEN [i \in 1..size |-> IF i <= Len(fs[n]) THEN fs[n][i] ELSE 0]
        ELSE fs[n]]

Truncate(name, size) ==
    LET t == ProbeFirst(config, files, name)
        ok == Exists(files, t)
    IN /\ res.calls < MaxPathOps
       /\ NoOpenHandle
       /\ files' = IF ok THEN baseTruncate(files, t, size) ELSE files
       /\ res' = [Returned("Truncate", name, IF ok THEN "nil" ELSE "notexist",
                           IF ok THEN t ELSE <<>>) EXCEPT !.calls = @ + 1]
       /\ UNCHANGED <<config, cf, stats, opens, sets, lastWrite>>

\* the name components of the model in byte order ('.' sorts before every
\* letter and digit, so names compare component by component)
ComponentOrder == <<"GZ", "a", "br", "gz", "i", "jpg", "k", "log", "lz4", "m", "sz", "zst">>
Rank(c) == CHOOSE i \in 1..Len(ComponentOrder) : ComponentOrder[i] = c

RECURSIVE Less(_, _)
Less(a, b) ==
    IF a = <<>> THEN b # <<>>
    ELSE IF b = <<>> THEN FALSE
    ELSE IF a[1] = b[1] THEN Less(Tail(a), Tail(b))
    ELSE Rank(a[1]) < Rank(b[1])

\* memFS.ReadDir: the names of the directory, sorted
RECURSIVE memReadDir(_)
memReadDir(S) ==
    IF S = {} THEN <<>>
    ELSE LET m == CHOOSE x \in S : \A y \in S \ {x} : Less(x, y)
         IN <<m>> \o memReadDir(S \ {m})

\* FS.ReadDir's loop: the name each entry is reported under, an entry whose
\* name was seen already is dropped
RECURSIVE Project(_, _)
Project(entries, seen) ==
    IF entries = <<>> THEN <<>>
    ELSE LET entryName == Head(entries)
             st == StripExtension(entryName)
             nm == IF st.found THEN st.name ELSE entryName
         IN IF nm \in seen THEN Project(Tail(entries), seen)
            ELSE <<[name |-> nm, physical |-> entryName]>>
                    \o Project(Tail(entries), seen \cup {nm})

ReadDir ==
    /\ res' = [Returned("ReadDir", <<>>, "nil", <<>>) EXCEPT
                  !.entries = IF config.StripExtension
                              THEN Project(memReadDir(DOMAIN files), {})
                              ELSE [i \in 1..Cardinality(DOMAIN files) |->
                                      [name |-> memReadDir(DOMAIN files)[i],
                                       physical |-> memReadDir(DOMAIN files)[i]]]]
    /\ UNCHANGED <<config, files, cf, stats, opens, sets, lastWrite>>

\* the names of the directory-view specification: a default-policy name, a
\* name the skip pattern matches, and a name with an upper-case suffix
ViewNames == { <<"a">>, <<"i", "jpg">>, <<"a", "GZ">> }

\* gzip at level 6 with a minimum size, without auto-tuning and
\* auto-detection
ViewConfigs ==
    {c \in Configs : /\ c.Algorithm = AlgorithmGzip /\ c.Level = 6 /\ c.MinSize = 4
                     /\ ~c.EnableAutoTuning /\ ~c.AutoDetect}

InitView ==
    /\ config \in ViewConfigs
    /\ files = << >>
    /\ cf = [h \in HandleIds |-> NoHandle]
    /\ stats = ZeroStats
    /\ opens = 0
    /\ sets = 0
    /\ lastWrite = [n \in ViewNames |-> NoWrite]
    /\ res = NoResult

NextView ==
    \/ \E h \in HandleIds, name \in ViewNames, flag \in Flags : OpenFile(h, name, flag)
    \/ \E h \in HandleIds, k \in ReadSizes : Read(h, k)
    \/ \E h \in HandleIds, p \in Chunks : Write(h, p)
    \/ \E h \in HandleIds : Close(h)
    \/ \E oldpath \in ViewNames : \E newpath \in ViewNames \ {oldpath} :
            Rename(oldpath, newpath)
    \/ \E name \in ViewNames : Remove(name)
    \/ \E name \in ViewNames : Stat(name)
    \/ \E name \in ViewNames : Chmod(name)
    \/ \E name \in ViewNames, size \in TruncateSizes : Truncate(name, size)
    \/ ReadDir

SpecView == InitView /\ [][NextView]_vars


(***************************************************************************)
(* A specification of the handle's positional operations:                  *)
(* compressedFile.Seek, Sync, ReadAt, WriteAt, Truncate over memFile.      *)
(***************************************************************************)
\* the handle fails before it acts: fs.ErrClosed on a closed handle, nothing
\* changes
ReturnsClosed(h) ==
    /\ cf' = [cf EXCEPT ![h].calls = @ + 1, ![h].lastN = 0, ![h].lastErr = "closed"]
    /\ UNCHANGED <<files, stats>>

\* a closed test that lets the operation through
NeverClosed(c) == FALSE

\* cf.closed, the first test of every operation of the handle
IsClosed(c) == c.closed

\* ErrSeekNotSupported, nothing changes
NotSupported(h) ==
    /\ cf' = [cf EXCEPT ![h].calls = @ + 1,
                        ![h].lastN = 0, ![h].lastErr = "SeekNotSupported"]
    /\ UNCHANGED <<files, stats>>

\* data with p copied in at offset off (off + Len(p) <= Len(data))
Patch(data, p, off) ==
    [i \in 1..Len(data) |->
        IF off < i /\ i <= off + Len(p) THEN p[i - off] ELSE data[i]]

\* data cut or extended with zero bytes to size
Resize(data, size) == [i \in 1..size |-> IF i <= Len(data) THEN data[i] ELSE 0]

\* Seek(offset, io.SeekStart).  The handle's compressor field is never set:
\* only a decoder makes Seek fail
Seek(h, offset) ==
    LET c == cf[h]
    IN /\ c.exists
       /\ c.calls < MaxFileOps
       /\ IF IsClosed(c) THEN ReturnsClosed(h)
          ELSE IF c.decompressor.kind # "none" THEN NotSupported(h)
          ELSE /\ cf' = [cf EXCEPT ![h].calls = @ + 1, ![h].basePos = offset,
                                   ![h].lastN = offset, ![h].lastErr = "nil"]
               /\ UNCHANGED <<files, stats>>
       /\ UNCHANGED <<config, opens, sets, lastWrite, res>>

Sync(h) ==
    LET c == cf[h]
    IN /\ c.exists
       /\ c.calls < MaxFileOps
       /\ IF IsClosed(c) THEN ReturnsClosed(h)
          ELSE /\ cf' = [cf EXCEPT ![h].calls = @ + 1, ![h].lastN = 0, ![h].lastErr = "nil"]
               /\ UNCHANGED <<files, stats>>
       /\ UNCHANGED <<config, opens, sets, lastWrite, res>>

\* ReadAt into a buffer of size k at offset off
ReadAt(h, k, off) ==
    LET c == cf[h]
        data == BaseContent(files, c)
        n == Min(k, Len(data) - off)
    IN /\ c.exists
       /\ c.calls < MaxFileOps
       /\ IF IsClosed(c) THEN ReturnsClosed(h)
          ELSE IF c.decompressor.kind # "none" THEN NotSupported(h)
          ELSE /\ cf' = [cf EXCEPT ![h].calls = @ + 1,
                            ![h].lastN = IF off >= Len(data) THEN 0 ELSE n,
                            ![h].lastErr = IF off >= Len(data) \/ n < k
                                           THEN "EOF" ELSE "nil"]
               /\ UNCHANGED <<files, stats>>
       /\ UNCHANGED <<config, opens, sets, lastWrite, res>>

\* WriteAt of b at offset off: refused when a staging buffer exists; the
\* base handle writes into the file's bytes, or into a larger buffer of its
\* own when the file is too short
WriteAt(h, b, off) ==
    LET c == cf[h]
        data == BaseContent(files, c)
        needed == off + Len(b)
    IN /\ c.exists
       /\ c.calls < MaxFileOps
       /\ IF IsClosed(c) THEN ReturnsClosed(h)
          ELSE IF c.hasBuffer THEN NotSupported(h)
          ELSE /\ IF needed > Len(data)
                  THEN /\ cf' = [cf EXCEPT ![h].calls = @ + 1,
                                    ![h].detached = TRUE,
                                    ![h].own = Patch(Resize(data, needed), b, off),
                                    ![h].lastN = Len(b), ![h].lastErr = "nil"]
                       /\ UNCHANGED files
                  ELSE /\ cf' = [cf EXCEPT ![h].calls = @ + 1,
                                    ![h].own = IF c.detached THEN Patch(data, b, off)
                                               ELSE @,
                                    ![h].lastN = Len(b), ![h].lastErr = "nil"]
                       /\ files' = IF c.detached THEN files
                                   ELSE [files EXCEPT ![c.compressedName] =
                                            Patch(data, b, off)]
               /\ UNCHANGED stats
       /\ UNCHANGED <<config, opens, sets, lastWrite, res>>

\* Truncate(size): the base handle replaces its buffer, the stored file
\* keeps its own
FileTruncate(h, size) ==
    LET c == cf[h]
        data == BaseContent(files, c)
    IN /\ c.exists
       /\ c.calls < MaxFileOps
       /\ IF IsClosed(c) THEN ReturnsClosed(h)
          ELSE IF c.decompressor.kind # "none" THEN NotSupported(h)
          ELSE /\ cf' = [cf EXCEPT ![h].calls = @ + 1,
                            ![h].detached = IF size = Len(data) THEN @ ELSE TRUE,
                            ![h].own = IF size = Len(data) THEN @ ELSE Resize(data, size),
                            ![h].lastN = 0, ![h].lastErr = "nil"]
               /\ UNCHANGED <<files, stats>>
       /\ UNCHANGED <<config, opens, sets, lastWrite, res>>

\* the arguments of the positional operations: an offset inside a file of
\* two bytes or more, one byte to write, a size above every file's
SeekOffsets == {1}
AtOffsets == {0}
AtChunks == { <<66>> }
FileTruncateSizes == {16}

\* a default-policy name and a name the skip pattern matches
HandleNames == { <<"a">>, <<"i", "jpg">> }

\* gzip at level 6 without a minimum size, auto-tuning and auto-detection
HandleConfigs ==
    {c \in Configs : /\ c.Algorithm = AlgorithmGzip /\ c.Level = 6 /\ c.MinSize = 0
                     /\ ~c.EnableAutoTuning /\ ~c.AutoDetect}

InitHandle ==
    /\ config \in HandleConfigs
    /\ files = << >>
    /\ cf = [h \in HandleIds |-> NoHandle]
    /\ stats = ZeroStats
    /\ opens = 0
    /\ sets = 0
    /\ lastWrite = [n \in LogicalNames |-> NoWrite]
    /\ res = NoResult

NextHandle ==
    \/ \E h \in HandleIds, name \in HandleNames, flag \in Flags : OpenFile(h, name, flag)
    \/ \E h \in HandleIds, k \in ReadSizes : Read(h, k)
    \/ \E h \in HandleIds, p \in Chunks : Write(h, p)
    \/ \E h \in HandleIds : Close(h)
    \/ \E h \in HandleIds, offset \in SeekOffsets : Seek(h, offset)
    \/ \E h \in HandleIds : Sync(h)
    \/ \E h \in HandleIds, k \in ReadSizes, off \in AtOffsets : ReadAt(h, k, off)
    \/ \E h \in HandleIds, b \in AtChunks, off \in AtOffsets : WriteAt(h, b, off)
    \/ \E h \in HandleIds, size \in FileTruncateSizes : FileTruncate(h, size)

SpecHandle == InitHandle /\ [][NextHandle]_vars

(***************************************************************************)
(* A specification of the construction: New(base, config).  A pattern is a *)
(* sequence of regular-expression tokens; regexp.Compile accepts it when   *)
(* its parentheses balance.                                                *)
(***************************************************************************)
\* the depth of open groups after the tokens of p, -1 once a ")" has no
\* "(" to close
RECURSIVE Depth(_, _)
Depth(p, d) ==
    IF d < 0 \/ p = <<>> THEN d
    ELSE Depth(Tail(p), CASE Head(p) = "(" -> d + 1
                          [] Head(p) = ")" -> d - 1
                          [] OTHER -> d)

\* regexp.Compile(p) returns no error
regexpCompile(p) == Depth(p, 0) = 0

\* "(?:" + patterns[0] + "|" + patterns[1] + ... + ")"
RECURSIVE JoinPatterns(_)
JoinPatterns(ps) ==
    IF Len(ps) = 1 THEN ps[1]
    ELSE ps[1] \o <<"|">> \o JoinPatterns(Tail(ps))

SkipPattern(ps) == <<"(">> \o JoinPatterns(ps) \o <<")">>

\* what New returns for a configuration: an error, or a facade
NewResult(cfg) ==
    IF Len(cfg.SkipPatterns) > 0 /\ ~regexpCompile(SkipPattern(cfg.SkipPatterns))
    THEN "error"
    ELSE IF \E i \in 1..Len(cfg.AlgorithmRules) :
                ~regexpCompile(cfg.AlgorithmRules[i].Pattern)
    THEN "error"
    ELSE "nil"

New ==
    /\ res.op = "none"
    /\ res' = Returned("New", <<>>, NewResult(config), <<>>)
    /\ UNCHANGED <<config, files, cf, stats, opens, sets, lastWrite>>

\* the patterns a configuration is built from: two that compile, two that
\* do not
Patterns == { <<"x">>, <<"(", "x", ")">>, <<"(", "x">>, <<"x", ")">> }

\* algorithm tags: the five codecs and one outside them
Tags == Algorithms \cup {"unsupported"}

NewConfigs ==
    [Algorithm : Tags,
     SkipPatterns : {<<>>} \cup {<<p>> : p \in Patterns}
                        \cup {<<p, q>> : p \in Patterns, q \in Patterns},
     AlgorithmRules : {<<>>} \cup {<<[Pattern |-> p, Algorithm |-> a, Level |-> 0]>> :
                                        p \in Patterns, a \in Tags}]

InitNew ==
    /\ config \in NewConfigs
    /\ files = << >>
    /\ cf = [h \in HandleIds |-> NoHandle]
    /\ stats = ZeroStats
    /\ opens = 0
    /\ sets = 0
    /\ lastWrite = [n \in LogicalNames |-> NoWrite]
    /\ res = NoResult

NextNew == New

SpecNew == InitNew /\ [][NextNew]_vars

(***************************************************************************)
(* The policy on its own: selectAlgorithm as a function of the             *)
(* configuration, the compiled rules, the name and the size.  The          *)
(* configuration carries the rule list here; config.Level is the level     *)
(* the facade was configured with.                                         *)
(***************************************************************************)
\* `^k\.log$` and `\.log$`
RulePatterns ==
    { [dot |-> FALSE, comps |-> <<"k", "log">>],
      [dot |-> TRUE, comps |-> <<"log">>] }

\* an unset level, level 0, and a level above every default
RuleLevels == {-1, 0, 11}

PolicyRules ==
    [pattern : RulePatterns, algorithm : Algorithms, level : RuleLevels]

\* a level below the table's levels and one above them
PolicyLevels == {1, 9}

\* a threshold a short buffer reaches, and one megabyte
Thresholds == {2, 1024 * 1024}

\* sizes on both sides of zero, of the thresholds and of ten megabytes
FileSizes ==
    {-1, 0, 1, 2, 1024 * 1024 - 1, 1024 * 1024,
     10 * 1024 * 1024, 10 * 1024 * 1024 + 1}

PolicyConfigs ==
    [Algorithm : Algorithms, Level : PolicyLevels,
     EnableAutoTuning : BOOLEAN, AutoTuneSizeThreshold : Thresholds,
     AlgorithmRules : {<<>>} \cup {<<r>> : r \in PolicyRules}
                        \cup {<<r, s>> : r \in PolicyRules, s \in PolicyRules}]

\* one call of cfs.selectAlgorithm(name, fileSize); its three results and
\* its arguments are kept in res
Select(name, fileSize) ==
    /\ res.op = "none"
    /\ res' = Returned("selectAlgorithm", name, "nil",
                       [size |-> fileSize,
                        sel |-> selectAlgorithmIn(config.AlgorithmRules, config,
                                                  name, fileSize)])
    /\ UNCHANGED <<config, files, cf, stats, opens, sets, lastWrite>>

InitPolicy ==
    /\ config \in PolicyConfigs
    /\ files = << >>
    /\ cf = [h \in HandleIds |-> NoHandle]
    /\ stats = ZeroStats
    /\ opens = 0
    /\ sets = 0
    /\ lastWrite = [n \in LogicalNames |-> NoWrite]
    /\ res = NoResult

NextPolicy == \E name \in LogicalNames : \E fileSize \in FileSizes : Select(name, fileSize)

SpecPolicy == InitPolicy /\ [][NextPolicy]_vars

(***************************************************************************)
(* Extension replacement: a facade configured with PreserveExtension       *)
(* false and StripExtension true, written and read through handles.        *)
(***************************************************************************)
\* data.txt and a name without an extension of its own
ExtNames == { <<"data", "txt">>, <<"a">> }

ExtConfigs ==
    [Algorithm : {AlgorithmZstd, AlgorithmGzip}, Level : {6}, MinSize : {0},
     AutoDetect : BOOLEAN, PreserveExtension : {FALSE}, StripExtension : {TRUE},
     EnableAutoTuning : {FALSE}, AutoTuneSizeThreshold : {2}]

InitExt ==
    /\ config \in ExtConfigs
    /\ files = << >>
    /\ cf = [h \in HandleIds |-> NoHandle]
    /\ stats = ZeroStats
    /\ opens = 0
    /\ sets = 0
    /\ lastWrite = [n \in ExtNames |-> NoWrite]
    /\ res = NoResult

NextExt ==
    \/ \E h \in HandleIds, name \in ExtNames, flag \in Flags : OpenFile(h, name, flag)
    \/ \E h \in HandleIds, k \in ReadSizes : Read(h, k)
    \/ \E h \in HandleIds, p \in Chunks : Write(h, p)
    \/ \E h \in HandleIds : Close(h)

SpecExt == InitExt /\ [][NextExt]_vars

(***************************************************************************)
(* Concurrent closes.  Each handle has its own mutex, so the Closes of     *)
(* different handles run side by side; what they share is FS.stats.  The   *)
(* integer counters are updated with atomic.AddInt64; the per-algorithm    *)
(* count is a sync.Map entry that IncrementAlgorithmCount reads with       *)
(* LoadOrStore and writes back with Store, two separate map operations.    *)
(* cf holds one closing goroutine per handle: where it is in Close (pc),   *)
(* what its handle did (kind), the algorithm it counts, and the value it   *)
(* loaded.                                                                 *)
(***************************************************************************)
Closers == {"g1", "g2", "g3"}

\* the algorithms the closing handles use
CloserAlgorithms == {AlgorithmGzip, AlgorithmZstd}

\* a write handle that compresses, or a read handle with a decompressor
CloserKinds == {"compress", "decompress"}

\* Close up to the call of IncrementAlgorithmCount: the atomic counters
CloseCounters(g) ==
    /\ cf[g].pc = "open"
    /\ stats' = IF cf[g].kind = "compress"
                THEN AddStat(AddStat(AddStat(stats, "FilesCompressed", 1),
                                     "BytesWritten", cf[g].bytes),
                             "BytesCompressed", cf[g].bytes)
                ELSE AddStat(AddStat(stats, "FilesDecompressed", 1),
                             "BytesDecompressed", cf[g].bytes)
    /\ cf' = [cf EXCEPT ![g].pc = "load"]
    /\ UNCHANGED <<config, files, opens, sets, lastWrite, res>>

\* val, _ := s.AlgorithmCounts.LoadOrStore(algo, int64(0))
LoadOrStore(g) ==
    /\ cf[g].pc = "load"
    /\ cf' = [cf EXCEPT ![g].pc = "store",
                        ![g].val = stats.AlgorithmCounts[cf[g].algo]]
    /\ UNCHANGED <<config, files, stats, opens, sets, lastWrite, res>>

\* s.AlgorithmCounts.Store(algo, val.(int64)+1), then the rest of Close
Store(g) ==
    /\ cf[g].pc = "store"
    /\ stats' = [stats EXCEPT !.AlgorithmCounts[cf[g].algo] = cf[g].val + 1]
    /\ cf' = [cf EXCEPT ![g].pc = "closed"]
    /\ UNCHANGED <<config, files, opens, sets, lastWrite, res>>

InitCount ==
    /\ config \in HandleConfigs
    /\ files = << >>
    /\ cf \in [Closers -> [pc : {"open"}, kind : CloserKinds,
                           algo : CloserAlgorithms, bytes : {4}, val : {0}]]
    /\ stats = ZeroStats
    /\ opens = 0
    /\ sets = 0
    /\ lastWrite = [n \in LogicalNames |-> NoWrite]
    /\ res = NoResult

NextCount ==
    \/ \E g \in Closers : CloseCounters(g)
    \/ \E g \in Closers : LoadOrStore(g)
    \/ \E g \in Closers : Store(g)

SpecCount == InitCount /\ [][NextCount]_vars

(***************************************************************************)
(* The facade's lock.  FS.mu is a sync.RWMutex and FS.config a pointer to  *)
(* the caller's Config.  cf holds one goroutine per entry: openers, which  *)
(* run OpenFile for a new file, the handle's construction and later its    *)
(* Close, and setters, which run SetAlgorithm or SetLevel.  The state of   *)
(* the lock is where the goroutines are: an opener holds it shared at      *)
(* "held" and "selecting", a setter holds it exclusively at "locked" and   *)
(* "written".                                                              *)
(***************************************************************************)
Openers == {"o1", "o2"}
Setters == {"s1"}

ReadHeld(g) == cf[g].pc \in {"held", "selecting"}
WriteLocked == \E s \in Setters : cf[s].pc \in {"locked", "written"}

\* what a read of a field can return: the stored value, or the value a
\* setter inside its critical section is about to store
Racing(field) ==
    {config[field]} \cup {cf[s].value : s \in {x \in Setters : cf[x].pc = "locked"
                                                          /\ cf[x].field = field}}

\* OpenFile: cfs.mu.RLock()
RLockOpen(g) ==
    /\ cf[g].pc = "start"
    /\ ~WriteLocked
    /\ cf' = [cf EXCEPT ![g].pc = "held"]
    /\ UNCHANGED <<config, files, stats, opens, sets, lastWrite, res>>

\* OpenFile: config := cfs.config (the pointer), cfs.mu.RUnlock()
RUnlockOpen(g) ==
    /\ cf[g].pc = "held"
    /\ cf' = [cf EXCEPT ![g].pc = "resolve"]
    /\ UNCHANGED <<config, files, stats, opens, sets, lastWrite, res>>

\* OpenFile: AddExtension(name, config.Algorithm, ...) and
\* detectedAlgo = config.Algorithm, through the pointer
ReadAlgorithm(g) ==
    /\ cf[g].pc = "resolve"
    /\ \E ext \in Racing("Algorithm") : \E algo \in Racing("Algorithm") :
          cf' = [cf EXCEPT ![g].pc = "construct", ![g].ext = ext, ![g].algo = algo,
                           ![g].reads = @ + 1]
    /\ UNCHANGED <<config, files, stats, opens, sets, lastWrite, res>>

\* newCompressedFile: cf.writeLevel = cfs.config.Level
ReadLevel(g) ==
    /\ cf[g].pc = "construct"
    /\ \E level \in Racing("Level") :
          cf' = [cf EXCEPT ![g].pc = "opened", ![g].level = level, ![g].reads = @ + 1]
    /\ UNCHANGED <<config, files, stats, opens, sets, lastWrite, res>>

\* Close: selectAlgorithm's cfs.mu.RLock()
RLockSelect(g) ==
    /\ cf[g].pc = "opened"
    /\ ~WriteLocked
    /\ cf' = [cf EXCEPT ![g].pc = "selecting"]
    /\ UNCHANGED <<config, files, stats, opens, sets, lastWrite, res>>

\* Close: selectAlgorithm reads config.Algorithm and config.Level and
\* unlocks on return; the level read at construction replaces the level
\* selected when it is not 0
SelectRead(g) ==
    /\ cf[g].pc = "selecting"
    /\ cf' = [cf EXCEPT ![g].pc = "closed", ![g].algo = config.Algorithm,
                        ![g].level = IF cf[g].level # 0 THEN cf[g].level ELSE config.Level,
                        ![g].reads = @ + 1]
    /\ UNCHANGED <<config, files, stats, opens, sets, lastWrite, res>>

\* SetAlgorithm, SetLevel: cfs.mu.Lock()
LockSet(s) ==
    /\ cf[s].pc = "start"
    /\ ~WriteLocked
    /\ \A g \in Openers : ~ReadHeld(g)
    /\ cf' = [cf EXCEPT ![s].pc = "locked"]
    /\ UNCHANGED <<config, files, stats, opens, sets, lastWrite, res>>

\* cfs.config.Algorithm = algo, cfs.config.Level = level
StoreSet(s) ==
    /\ cf[s].pc = "locked"
    /\ config' = [config EXCEPT ![cf[s].field] = cf[s].value]
    /\ cf' = [cf EXCEPT ![s].pc = "written"]
    /\ UNCHANGED <<files, stats, opens, sets, lastWrite, res>>

\* the deferred cfs.mu.Unlock()
UnlockSet(s) ==
    /\ cf[s].pc = "written"
    /\ cf' = [cf EXCEPT ![s].pc = "done"]
    /\ UNCHANGED <<config, files, stats, opens, sets, lastWrite, res>>

\* what a setter is called with
SetCalls ==
    {[field |-> "Algorithm", value |-> AlgorithmZstd], [field |-> "Level", value |-> 9]}

InitLock ==
    /\ config \in HandleConfigs
    /\ files = << >>
    /\ \E call \in SetCalls :
          cf = [g \in Openers \cup Setters |->
                  IF g \in Openers
                  THEN [pc |-> "start", ext |-> NoAlgorithm, algo |-> NoAlgorithm,
                        level |-> 0, reads |-> 0]
                  ELSE [pc |-> "start", field |-> call.field, value |-> call.value]]
    /\ stats = ZeroStats
    /\ opens = 0
    /\ sets = 0
    /\ lastWrite = [n \in LogicalNames |-> NoWrite]
    /\ res = NoResult

NextLock ==
    \/ \E g \in Openers : RLockOpen(g)
    \/ \E g \in Openers : RUnlockOpen(g)
    \/ \E g \in Openers : ReadAlgorithm(g)
    \/ \E g \in Openers : ReadLevel(g)
    \/ \E g \in Openers : RLockSelect(g)
    \/ \E g \in Openers : SelectRead(g)
    \/ \E s \in Setters : LockSet(s)
    \/ \E s \in Setters : StoreSet(s)
    \/ \E s \in Setters : UnlockSet(s)

SpecLock == InitLock /\ [][NextLock]_vars

(***************************************************************************)
(* Concurrent calls on one handle.  Write and Close start with             *)
(* cf.mu.Lock() and release it on return.  cf holds the handle (h1) and    *)
(* one goroutine per call: two Writes and two Closes.  The handle has been *)
(* opened for writing by OpenFile; the mutex is held by the goroutine that *)
(* is between its Lock and its Unlock.                                     *)
(***************************************************************************)
Writers == {"w1", "w2"}
SameClosers == {"c1", "c2"}

\* a handle without a mutex
MutexAbsent == TRUE

\* cf.mu is free
MutexFree == \A g \in Writers \cup SameClosers : cf[g].pc \in {"start", "done"}

\* cf.mu.Lock() at the top of Write and of Close
Lock(g) ==
    /\ cf[g].pc = "start"
    /\ MutexFree
    /\ cf' = [cf EXCEPT ![g].pc = "locked"]
    /\ UNCHANGED <<config, files, stats, opens, sets, lastWrite, res>>

\* Write: if cf.closed { return 0, fs.ErrClosed }
WriteCheck(g) ==
    /\ g \in Writers
    /\ cf[g].pc = "locked"
    /\ cf' = IF cf["h1"].closed
             THEN [cf EXCEPT ![g].pc = "return", ![g].n = 0, ![g].err = "closed"]
             ELSE [cf EXCEPT ![g].pc = "write"]
    /\ UNCHANGED <<config, files, stats, opens, sets, lastWrite, res>>

\* Write: into the staging buffer, or through to the underlying file
WriteBytes(g) ==
    LET c == cf["h1"]
        p == cf[g].p
    IN /\ g \in Writers
       /\ cf[g].pc = "write"
       /\ IF c.shouldCompress /\ c.hasBuffer
          THEN /\ cf' = [cf EXCEPT
                            !["h1"].writeBuffer = @ \o p,
                            !["h1"].bytesWritten = @ + Len(p),
                            !["h1"].writes = @ + 1, !["h1"].data = @ \o p,
                            ![g].pc = "return", ![g].n = Len(p), ![g].err = "nil"]
               /\ UNCHANGED <<files, stats>>
          ELSE /\ files' = baseWrite(files, c, p)
               /\ cf' = [cf EXCEPT
                            !["h1"].bytesWritten = @ + Len(p),
                            !["h1"].writes = @ + 1, !["h1"].data = @ \o p,
                            ![g].pc = "return", ![g].n = Len(p), ![g].err = "nil"]
               /\ stats' = AddStat(stats, "BytesWritten", Len(p))
       /\ UNCHANGED <<config, opens, sets, lastWrite, res>>

\* Close: if cf.closed { return nil }; cf.closed = true
CloseCheck(g) ==
    /\ g \in SameClosers
    /\ cf[g].pc = "locked"
    /\ cf' = IF cf["h1"].closed
             THEN [cf EXCEPT ![g].pc = "return", ![g].err = "nil",
                             !["h1"].closeCalls = @ + 1]
             ELSE [cf EXCEPT ![g].pc = "flush", !["h1"].closed = TRUE,
                             !["h1"].closeCalls = @ + 1]
    /\ UNCHANGED <<config, files, stats, opens, sets, lastWrite, res>>

\* Close: the flush of the staging buffer, the counters, the underlying
\* file
CloseFlush(g) ==
    LET e == CloseEffect(config, files, stats, cf["h1"])
    IN /\ g \in SameClosers
       /\ cf[g].pc = "flush"
       /\ files' = e.fs
       /\ stats' = e.st
       /\ cf' = [cf EXCEPT !["h1"] = e.c,
                           ![g].pc = "return", ![g].err = e.c.closeErr]
       /\ UNCHANGED <<config, opens, sets, lastWrite, res>>

\* the deferred cf.mu.Unlock()
Unlock(g) ==
    /\ cf[g].pc = "return"
    /\ cf' = [cf EXCEPT ![g].pc = "done"]
    /\ UNCHANGED <<config, files, stats, opens, sets, lastWrite, res>>

\* gzip at level 6, with and without a minimum size
SameConfigs ==
    {c \in Configs : /\ c.Algorithm = AlgorithmGzip /\ c.Level = 6
                     /\ ~c.EnableAutoTuning /\ ~c.AutoDetect}

\* the handle Create(name) returns in an empty store, and the store
Created(cfg, name) ==
    LET r == ResolveName(cfg, << >>, name, "O_CREATE")
        o == memOpenFile(<< >>, r.actualName, "O_CREATE")
    IN [fs |-> o.fs,
        c |-> newCompressedFile(cfg, name, r.actualName, "O_CREATE", r.detectedAlgo, <<>>)]

InitSame ==
    /\ config \in SameConfigs
    /\ \E name \in HandleNames : \E p1 \in Chunks : \E p2 \in Chunks :
          /\ files = Created(config, name).fs
          /\ cf = [g \in {"h1"} \cup Writers \cup SameClosers |->
                     IF g = "h1" THEN Created(config, name).c
                     ELSE [pc |-> "start", n |-> 0, err |-> "nil",
                           p |-> IF g = "w1" THEN p1 ELSE IF g = "w2" THEN p2 ELSE <<>>]]
    /\ stats = ZeroStats
    /\ opens = 1
    /\ sets = 0
    /\ lastWrite = [n \in LogicalNames |-> NoWrite]
    /\ res = NoResult

NextSame ==
    \/ \E g \in Writers \cup SameClosers : Lock(g)
    \/ \E g \in Writers : WriteCheck(g)
    \/ \E g \in Writers : WriteBytes(g)
    \/ \E g \in SameClosers : CloseCheck(g)
    \/ \E g \in SameClosers : CloseFlush(g)
    \/ \E g \in Writers \cup SameClosers : Unlock(g)

SpecSame == InitSame /\ [][NextSame]_vars

(***************************************************************************)
(* Two handles open at once.  Each call of a handle runs under the         *)
(* handle's mutex and each memFS call under the store's; the handles'      *)
(* Creates, Writes and Closes interleave call by call.                     *)
(***************************************************************************)
TwoHandles == {"h1", "h2"}

\* a default-policy name, the name of a file that is compressed already,
\* and a name the skip pattern matches
TwoNames == { <<"a">>, <<"a", "gz">>, <<"i", "jpg">> }

InitTwo ==
    /\ config \in HandleConfigs
    /\ files = << >>
    /\ cf = [h \in TwoHandles |-> NoHandle]
    /\ stats = ZeroStats
    /\ opens = 0
    /\ sets = 0
    /\ lastWrite = [n \in TwoNames |-> NoWrite]
    /\ res = NoResult

NextTwo ==
    \/ \E h \in TwoHandles, name \in TwoNames : OpenFile(h, name, "O_CREATE")
    \/ \E h \in TwoHandles, p \in Chunks : Write(h, p)
    \/ \E h \in TwoHandles : Close(h)

SpecTwo == InitTwo /\ [][NextTwo]_vars

(***************************************************************************)
(* A store whose Rename fails: the facade over a base that has only the    *)
(* old FileSystem interface, which filerAdapter wraps.                     *)
(***************************************************************************)
\* Close of a handle of such a facade
CloseAdapter(h) ==
    LET c == cf[h]
        e == CloseEffectWith("filerAdapter", config, files, stats, c)
    IN /\ c.exists
       /\ c.closeCalls < 2
       /\ IF c.closed
          THEN /\ cf' = [cf EXCEPT ![h].closeCalls = @ + 1, ![h].lastCloseErr = "nil"]
               /\ UNCHANGED <<files, stats, lastWrite>>
          ELSE /\ files' = e.fs
               /\ stats' = e.st
               /\ cf' = [cf EXCEPT ![h] =
                            [e.c EXCEPT !.closed = TRUE, !.closeCalls = 1,
                                        !.lastCloseErr = e.c.closeErr]]
               /\ lastWrite' =
                    IF c.flag = "O_CREATE"
                    THEN [lastWrite EXCEPT ![c.originalName] =
                            [done |-> TRUE, ok |-> e.c.closeErr = "nil", data |-> c.data]]
                    ELSE lastWrite
       /\ UNCHANGED <<config, opens, sets, res>>

\* every default algorithm, with a minimum size above the short chunks
AdapterConfigs ==
    {c \in Configs : c.Level = 6 /\ c.MinSize = 4 /\ ~c.EnableAutoTuning}

InitAdapter ==
    /\ config \in AdapterConfigs
    /\ files = << >>
    /\ cf = [h \in HandleIds |-> NoHandle]
    /\ stats = ZeroStats
    /\ opens = 0
    /\ sets = 0
    /\ lastWrite = [n \in LogicalNames |-> NoWrite]
    /\ res = NoResult

NextAdapter ==
    \/ \E h \in HandleIds, name \in LogicalNames, flag \in Flags : OpenFile(h, name, flag)
    \/ \E h \in HandleIds, k \in ReadSizes : Read(h, k)
    \/ \E h \in HandleIds, p \in Chunks : Write(h, p)
    \/ \E h \in HandleIds : CloseAdapter(h)

SpecAdapter == InitAdapter /\ [][NextAdapter]_vars

(***************************************************************************)
(* Close over a store and codecs whose calls can fail: what the first      *)
(* Close of a handle releases, and in which order.                         *)
(***************************************************************************)
\* the call of Close that fails, if any
Faults == {"none", "copy", "encoderClose", "decoderClose", "baseClose"}

\* Close of a handle; the Close and Rename calls it made are kept in res
CloseFaulty(h, fault) ==
    LET c == cf[h]
        e == CloseEffectIn("memFS", fault, config, files, stats, c)
    IN /\ c.exists
       /\ c.closeCalls < 2
       /\ IF c.closed
          THEN /\ cf' = [cf EXCEPT ![h].closeCalls = @ + 1, ![h].lastCloseErr = "nil"]
               /\ res' = Returned("Close", c.originalName, "nil", <<>>)
               /\ UNCHANGED <<files, stats, lastWrite>>
          ELSE /\ files' = e.fs
               /\ stats' = e.st
               /\ cf' = [cf EXCEPT ![h] =
                            [e.c EXCEPT !.closed = TRUE, !.closeCalls = 1,
                                        !.lastCloseErr = e.c.closeErr]]
               /\ res' = Returned("Close", c.originalName, e.c.closeErr,
                                  [released |-> e.released, fault |-> fault])
               /\ lastWrite' =
                    IF c.flag = "O_CREATE"
                    THEN [lastWrite EXCEPT ![c.originalName] =
                            [done |-> TRUE, ok |-> e.c.closeErr = "nil", data |-> c.data]]
                    ELSE lastWrite
       /\ UNCHANGED <<config, opens, sets>>

\* gzip at a level it takes and at one it rejects, with and without a
\* minimum size
FaultyConfigs ==
    {c \in Configs : /\ c.Algorithm = AlgorithmGzip /\ c.Level \in {6, 10}
                     /\ ~c.EnableAutoTuning /\ ~c.AutoDetect}

InitFaulty ==
    /\ config \in FaultyConfigs
    /\ files = << >>
    /\ cf = [h \in HandleIds |-> NoHandle]
    /\ stats = ZeroStats
    /\ opens = 0
    /\ sets = 0
    /\ lastWrite = [n \in LogicalNames |-> NoWrite]
    /\ res = NoResult

NextFaulty ==
    \/ \E h \in HandleIds, name \in HandleNames, flag \in Flags : OpenFile(h, name, flag)
    \/ \E h \in HandleIds, k \in ReadSizes : Read(h, k)
    \/ \E h \in HandleIds, p \in Chunks : Write(h, p)
    \/ \E h \in HandleIds, fault \in Faults : CloseFaulty(h, fault)

SpecFaulty == InitFaulty /\ [][NextFaulty]_vars

(***************************************************************************)
(* A caller that keeps reading: a handle that can still deliver bytes is   *)
(* read again.                                                             *)
(***************************************************************************)
NextDrain ==
    \/ \E h \in HandleIds, name \in HandleNames, flag \in Flags : OpenFile(h, name, flag)
    \/ \E h \in HandleIds, k \in ReadSizes : Read(h, k)
    \/ \E h \in HandleIds, p \in Chunks : Write(h, p)
    \/ \E h \in HandleIds : Close(h)

SpecDrain ==
    /\ InitHandle
    /\ [][NextDrain]_vars
    /\ WF_vars(\E h \in HandleIds, k \in ReadSizes : Read(h, k))

(***************************************************************************)
(* Opens for reading over a store that holds one logical name in several   *)
(* physical forms: what writes under different algorithms (SetAlgorithm    *)
(* between them) and a demoted write leave behind.                         *)
(***************************************************************************)
ProbeName == <<"a">>

\* the physical forms of the name: the name itself and one per algorithm
ProbeForms == {ProbeName} \cup {Append(ProbeName, extensionMap[a]) : a \in Algorithms}

\* what a form holds: under a suffix the codec's stream of a byte that
\* tells the forms apart, under the name itself that byte
ProbeByte(form) ==
    IF form = ProbeName THEN 65
    ELSE CHOOSE b \in 66..70 : ProbeOrder[b - 65] = reverseExtensionMap[form[Len(form)]]

ProbeContent(form) ==
    IF form = ProbeName THEN <<ProbeByte(form)>>
    ELSE CompressedStream(reverseExtensionMap[form[Len(form)]], <<ProbeByte(form)>>)

ProbeStores == {[f \in S |-> ProbeContent(f)] : S \in SUBSET ProbeForms}

\* every default algorithm, level 6, no minimum size
ProbeConfigs ==
    {c \in Configs : /\ c.Level = 6 /\ c.MinSize = 0
                     /\ ~c.EnableAutoTuning /\ ~c.AutoDetect}

InitProbe ==
    /\ config \in ProbeConfigs
    /\ files \in ProbeStores
    /\ cf = [h \in HandleIds |-> NoHandle]
    /\ stats = ZeroStats
    /\ opens = 0
    /\ sets = 0
    /\ lastWrite = [n \in LogicalNames |-> NoWrite]
    /\ res = NoResult

NextProbe ==
    \/ \E h \in HandleIds, flag \in {"O_RDONLY"} : OpenFile(h, ProbeName, flag)
    \/ \E h \in HandleIds, k \in ReadSizes : Read(h, k)
    \/ \E h \in HandleIds : Close(h)

SpecProbe == InitProbe /\ [][NextProbe]_vars

(***************************************************************************)
(* Properties.                                                             *)
(***************************************************************************)
\* a read handle that has been read to the end: its last Read returned
\* io.EOF or failed
ReadToEnd(c) == c.exists /\ c.flag = "O_RDONLY" /\ c.lastErr \in {"EOF", "corrupt"}

\* a name no skip pattern and no algorithm rule matches
DefaultPolicy(name) == ~shouldSkip(name) /\ FirstMatchingRule(name) = 0

\* C1: round trip through the facade.  For every default algorithm, every
\* level and every byte sequence B (the empty one included), Create(n),
\* Write(B), Close, then Open(n) and reading to EOF yields exactly B.  (n is
\* a name the default algorithm applies to, B is not below min_size, and
\* the configuration is not changed in between.)
C1_RoundTrip ==
    \A h \in HandleIds :
        LET c == cf[h]
            w == lastWrite[c.originalName]
        IN (/\ ReadToEnd(c)
            /\ sets = 0
            /\ DefaultPolicy(c.originalName)
            /\ w.done
            /\ (w.data = <<>> \/ Len(w.data) >= config.MinSize))
           => (c.lastErr = "EOF" /\ c.got = w.data)

\* C2: demotion preserves data.  With min_size = M > 0 and any default
\* algorithm, writing B with 0 < |B| < M through Create/Write/Close and
\* reading it back through Open on the same logical name yields exactly B.
C2_DemotionPreservesData ==
    \A h \in HandleIds :
        LET c == cf[h]
            w == lastWrite[c.originalName]
        IN (/\ ReadToEnd(c)
            /\ sets = 0
            /\ ~shouldSkip(c.originalName)
            /\ w.done /\ w.ok
            /\ 0 < Len(w.data) /\ Len(w.data) < config.MinSize)
           => (c.lastErr = "EOF" /\ c.got = w.data)

C4_SuffixTransparency ==
    \A n \in LogicalNames :
        LET w == lastWrite[n]
        IN (/\ config.PreserveExtension /\ config.StripExtension
            /\ ~shouldSkip(n)
            /\ sets = 0
            /\ w.done /\ w.ok
            /\ Len(w.data) > 0 /\ Len(w.data) >= config.MinSize)
           => /\ Exists(files, AddExtension(n, config.Algorithm, TRUE))
              /\ (res.op = "OpenFile" /\ res.name = n) => res.err = "nil"
              /\ \A h \in HandleIds :
                    (cf[h].originalName = n /\ ReadToEnd(cf[h]))
                        => (cf[h].lastErr = "EOF" /\ cf[h].got = w.data)

\* a write handle on a non-skipped name whose Close has returned success
\* after at least one byte was written
ClosedWrite(c) ==
    /\ c.exists /\ c.closed /\ c.flag = "O_CREATE"
    /\ ~shouldSkip(c.originalName)
    /\ c.closeErr = "nil"
    /\ Len(c.data) > 0

C6_AtMostOnePhysical ==
    \A h \in HandleIds :
        (ClosedWrite(cf[h]) /\ sets = 0)
            => ~(/\ Exists(files, cf[h].originalName)
                 /\ Exists(files, AddExtension(cf[h].originalName, config.Algorithm,
                                               config.PreserveExtension)))

\* C7: in every state reached by successful facade writes, with no handle
\* open, every (non-empty) file of the store whose name ends in a known
\* compression suffix holds a stream of the algorithm the suffix denotes.
C7_SuffixDenotesStream ==
    (\A h \in HandleIds : ~cf[h].exists \/ cf[h].closed)
        => \A f \in DOMAIN files :
              (HasCompressionExtension(f) /\ files[f] # <<>>)
                  => IsStreamOf(DetectAlgorithmFromExtension(f), files[f])

\* C8: for a non-skipped name an algorithm rule matches, the encoder built
\* at Close uses the first matching rule's algorithm and that rule's level
\* (the algorithm's default level when the rule's level is unset), whatever
\* the configured default level is.
C8_RuleLevelUsed ==
    \A h \in HandleIds :
        LET c == cf[h]
            r == FirstMatchingRule(c.originalName)
        IN (c.exists /\ c.encoder.built /\ ~shouldSkip(c.originalName) /\ r # 0)
            => /\ c.encoder.algo = AlgorithmRules[r].algorithm
               /\ c.encoder.level =
                    IF AlgorithmRules[r].level < 0
                    THEN getDefaultLevel(config, AlgorithmRules[r].algorithm)
                    ELSE AlgorithmRules[r].level

\* C9: with enable_auto_tuning true and no rule matching the name, the
\* encoder level used at Close for a staged buffer of size
\* n >= auto_tune_size_threshold is the auto-tune table's level for the
\* default algorithm and n.
C9_AutoTuneLevelUsed ==
    \A h \in HandleIds :
        LET c == cf[h]
        IN (/\ c.exists
            /\ c.encoder.built \/ c.encoder.err
            /\ config.EnableAutoTuning
            /\ DefaultPolicy(c.originalName)
            /\ Len(c.data) >= config.AutoTuneSizeThreshold)
           => c.encoder.level = autoTuneLevel(config, c.encoder.algo, Len(c.data))

\* C10: idempotent close.  Calling Close twice on a handle returns success
\* on both calls, and the second call leaves the store and every aggregate
\* counter as the first left them.
C10_IdempotentClose ==
    [][\A h \in HandleIds :
          (cf[h].exists /\ cf[h].closeCalls = 1 /\ cf'[h].closeCalls = 2)
              => /\ cf[h].closeErr = "nil"
                 /\ cf'[h].lastCloseErr = "nil"
                 /\ files' = files
                 /\ stats' = stats]_vars

\* C11: every successful write of a non-empty byte sequence through the
\* facade (Create, Write and Close all succeed) increments exactly one of
\* files_compressed and files_skipped, by exactly one, whether the file was
\* compressed, demoted below min_size, or matched a skip pattern.  (Create
\* and Write leave both counters alone, so the increment is that of the
\* handle's first Close.)
C11_OneFileCounter ==
    [][\A h \in HandleIds :
          (/\ cf[h].exists /\ cf[h].flag = "O_CREATE"
           /\ ~cf[h].closed /\ cf'[h].closed
           /\ Len(cf[h].data) > 0
           /\ cf'[h].closeErr = "nil")
              => \/ /\ stats'.FilesCompressed = stats.FilesCompressed + 1
                    /\ stats'.FilesSkipped = stats.FilesSkipped
                 \/ /\ stats'.FilesCompressed = stats.FilesCompressed
                    /\ stats'.FilesSkipped = stats.FilesSkipped + 1]_vars

\* C13: for a logical name a skip pattern matches, a handle opened for
\* reading passes reads through to the underlying file: reading to EOF
\* returns exactly the bytes that were written, whatever their leading bytes
\* and whatever auto_detect is set to.
C13_SkipReadsPlain ==
    \A h \in HandleIds :
        LET c == cf[h]
            w == lastWrite[c.originalName]
        IN (/\ ReadToEnd(c)
            /\ shouldSkip(c.originalName)
            /\ w.done /\ w.ok)
           => (c.lastErr = "EOF" /\ c.got = w.data)


\* C12: no aggregate counter observed through GetStats decreases between two
\* successive reads, across any sequence of facade and handle operations.
C12_CountersMonotone ==
    res.reads >= 2 => \A f \in Counters : res.seen[f] >= res.prev[f]

\* C12 (as the code has it): no aggregate counter observed through GetStats
\* decreases between two successive reads unless ResetStats was called
\* between them.
C12_MonotoneUnlessReset ==
    (res.reads >= 2 /\ ~res.resetBetween)
        => \A f \in Counters : res.seen[f] >= res.prev[f]

\* two successive reads with no reset between them, and counters that moved
C12_Witness ==
    /\ res.reads >= 2 /\ ~res.resetBetween
    /\ res.seen.BytesRead > res.prev.BytesRead
    /\ res.prev.BytesRead > 0
\* the suffixed forms of a name that exist in a store
SuffixedForms(fs, name) ==
    {a \in Algorithms : Exists(fs, Append(name, GetExtension(a)))}

\* C14: for a logical name a skip pattern matches, Create/Write/Close stores
\* the written bytes verbatim under the logical name itself, creates no
\* suffixed physical name, and leaves files_compressed unchanged.
C14_SkipStoredVerbatim ==
    [][\A h \in HandleIds :
          (/\ cf[h].exists /\ cf[h].flag = "O_CREATE"
           /\ shouldSkip(cf[h].originalName)
           /\ cf[h].writes > 0
           /\ ~cf[h].closed /\ cf'[h].closed
           /\ cf'[h].closeErr = "nil")
              => /\ Exists(files', cf[h].originalName)
                 /\ files'[cf[h].originalName] = cf[h].data
                 /\ SuffixedForms(files', cf[h].originalName)
                        \subseteq SuffixedForms(files, cf[h].originalName)
                 /\ stats'.FilesCompressed = stats.FilesCompressed]_vars
\* Reading-coded: an open handle with a decoder; Writing-staged: an open
\* handle with a staging buffer
ReadingCoded(c) == c.exists /\ ~c.closed /\ c.decompressor.kind # "none"
WritingStaged(c) == c.exists /\ ~c.closed /\ c.hasBuffer

\* a call of Seek, ReadAt, WriteAt or Truncate on handle h
PositionalCall(h) ==
    \/ \E offset \in SeekOffsets : Seek(h, offset)
    \/ \E k \in ReadSizes, off \in AtOffsets : ReadAt(h, k, off)
    \/ \E b \in AtChunks, off \in AtOffsets : WriteAt(h, b, off)
    \/ \E size \in FileTruncateSizes : FileTruncate(h, size)

\* C15: on a handle in Reading-coded (a decoder is active), each of Seek,
\* ReadAt, WriteAt and Truncate fails with SeekNotSupported and changes
\* neither the underlying file nor the decoder's position.
C15_ReadingCodedNotSupported ==
    [][\A h \in HandleIds :
          (ReadingCoded(cf[h]) /\ PositionalCall(h))
              => /\ cf'[h].lastErr = "SeekNotSupported"
                 /\ files' = files
                 /\ cf'[h].decompressor = cf[h].decompressor
                 /\ cf'[h].basePos = cf[h].basePos]_vars

\* C16: on a handle in Writing-staged (staging buffer active, not yet
\* closed), each of Seek, ReadAt, WriteAt and Truncate fails with
\* SeekNotSupported and leaves the staging buffer and the underlying file
\* unchanged.
C16_WritingStagedNotSupported ==
    [][\A h \in HandleIds :
          (WritingStaged(cf[h]) /\ PositionalCall(h))
              => /\ cf'[h].lastErr = "SeekNotSupported"
                 /\ cf'[h].writeBuffer = cf[h].writeBuffer
                 /\ files' = files]_vars

\* a call of one of the seven operations on handle h
AnyCall(h) ==
    \/ \E k \in ReadSizes : Read(h, k)
    \/ \E p \in Chunks : Write(h, p)
    \/ Sync(h)
    \/ PositionalCall(h)

\* C17: after Close, each of Read, Write, Seek, Sync, ReadAt, WriteAt and
\* Truncate on the handle returns the closed-file error and leaves the
\* staging buffer, the underlying file and every aggregate counter
\* unchanged.
C17_ClosedHandle ==
    [][\A h \in HandleIds :
          (cf[h].exists /\ cf[h].closed /\ AnyCall(h))
              => /\ cf'[h].lastErr = "closed"
                 /\ cf'[h].lastN = 0
                 /\ cf'[h].writeBuffer = cf[h].writeBuffer
                 /\ cf'[h].own = cf[h].own
                 /\ files' = files
                 /\ stats' = stats]_vars

\* a closed write handle that staged bytes, on which Seek, Sync, ReadAt,
\* WriteAt or Truncate was called after Close and returned the closed-file
\* error
C17_Witness ==
    \E h \in HandleIds :
        /\ cf[h].exists /\ cf[h].closed /\ cf[h].flag = "O_CREATE"
        /\ cf[h].hasBuffer /\ cf[h].writes > 0
        /\ cf[h].calls = 2
        /\ cf[h].lastErr = "closed"
\* what Open(name) through the facade and reading to EOF yields in a store
OpenYield(cfg, fs, name) ==
    LET r == ResolveName(cfg, fs, name, "O_RDONLY")
        content == fs[r.actualName]
        c == newCompressedFile(cfg, name, r.actualName, "O_RDONLY", r.detectedAlgo, content)
    IN IF ~Exists(fs, r.actualName) THEN [err |-> "notexist", data |-> <<>>]
       ELSE IF c.decompressor.kind = "bad" THEN [err |-> "corrupt", data |-> <<>>]
       ELSE [err |-> "nil",
             data |-> IF c.decompressor.kind = "ok" THEN c.decompressor.out
                      ELSE SubSeq(content, c.basePos + 1, Len(content))]

\* C18: after a successful facade Rename(old, new) where old resolves by
\* candidate probing to a physical name carrying a compression suffix, the
\* physical file is moved to new plus that same suffix, and Open(new)
\* yields the bytes that Open(old) yielded before the rename.  (Checked
\* for a new name that carries no compression suffix of its own.)
C18_RenameKeepsContent ==
    [][\A oldpath \in ViewNames : \A newpath \in ViewNames \ {oldpath} :
          LET algo == FirstCandidate(config, files, oldpath)
              ext == GetExtension(algo)
          IN (/\ Rename(oldpath, newpath)
              /\ res'.err = "nil"
              /\ algo # NoAlgorithm
              /\ ~HasCompressionExtension(newpath))
                 => /\ Exists(files', Append(newpath, ext))
                    /\ files'[Append(newpath, ext)] = files[Append(oldpath, ext)]
                    /\ ~Exists(files', Append(oldpath, ext))
                    /\ OpenYield(config, files', newpath)
                          = OpenYield(config, files, oldpath)]_vars
\* a call of Stat, Chmod, Truncate or Remove on a logical name
PathCall(name) ==
    \/ Stat(name)
    \/ Chmod(name)
    \/ Remove(name)
    \/ \E size \in TruncateSizes : Truncate(name, size)

\* C19: each of Stat, Chmod, Chtimes, Chown, Truncate, RemoveAll and Remove
\* on logical name n acts on the verbatim physical name n whenever it
\* exists, even if suffixed forms of n also exist; only when n is absent
\* and strip_extension is enabled does it act on the first existing
\* candidate n + suffix; when no form exists it returns the error of the
\* verbatim attempt and leaves the store unchanged.
C19_VerbatimFirst ==
    [][\A name \in ViewNames :
          LET algo == FirstCandidate(config, files, name)
          IN PathCall(name)
                => /\ Exists(files, name)
                        => (res'.err = "nil" /\ res'.target = name)
                   /\ (~Exists(files, name) /\ algo # NoAlgorithm)
                        => (res'.err = "nil"
                            /\ res'.target = Append(name, GetExtension(algo)))
                   /\ (~Exists(files, name) /\ algo = NoAlgorithm)
                        => (res'.err = "notexist" /\ files' = files)]_vars
\* C20: ReadDir with strip_extension enabled, for any set of underlying
\* entries: every entry whose name has a known compression suffix is
\* reported under its stripped name, and no two returned entries have the
\* same name (so underlying entries {x, x.gz} yield exactly one entry named
\* x).
C20_ListingDedup ==
    (res.op = "ReadDir" /\ config.StripExtension)
        => /\ \A i \in 1..Len(res.entries) :
                HasCompressionExtension(res.entries[i].physical)
                    => res.entries[i].name = Front(res.entries[i].physical)
           /\ \A i, j \in 1..Len(res.entries) :
                i # j => res.entries[i].name # res.entries[j].name
\* C21: for each of the five algorithms, Create followed by Close with no
\* Write leaves a zero-byte underlying file (no codec frame) and changes no
\* aggregate counter; reopening it through the facade yields a handle
\* without a decoder that returns zero bytes and then EOF without error.
C21_EmptyFile ==
    /\ [][\A h \in HandleIds :
            (/\ cf[h].exists /\ cf[h].flag = "O_CREATE" /\ cf[h].writes = 0
             /\ ~cf[h].closed /\ cf'[h].closed)
                => /\ cf'[h].closeErr = "nil"
                   /\ Exists(files', cf[h].compressedName)
                   /\ files'[cf[h].compressedName] = <<>>
                   /\ stats' = stats]_vars
    /\ [](\A h \in HandleIds :
            LET c == cf[h]
                w == lastWrite[c.originalName]
            IN (/\ c.exists /\ c.flag = "O_RDONLY"
                /\ w.done /\ w.data = <<>>)
                   => /\ c.decompressor.kind = "none"
                      /\ c.got = <<>>
                      /\ c.lastErr \in {"nil", "EOF", "closed"}
                      /\ (c.lastErr = "nil" => c.lastN = 0 /\ c.bytesRead = 0))

\* a handle reopened on a file that Create and Close left empty, read to EOF
C21_Witness ==
    \E h \in HandleIds :
        /\ ReadToEnd(cf[h])
        /\ lastWrite[cf[h].originalName].done
        /\ lastWrite[cf[h].originalName].data = <<>>
        /\ cf[h].lastErr = "EOF"
        /\ ~shouldSkip(cf[h].originalName)
\* C22: New returns an error and no facade whenever the configuration
\* contains an invalid skip-pattern or rule regex, or an algorithm tag (the
\* default algorithm or a rule's algorithm) outside the five codecs.
C22_NewRejectsInvalid ==
    (/\ res.op = "New"
     /\ \/ \E i \in 1..Len(config.SkipPatterns) : ~regexpCompile(config.SkipPatterns[i])
        \/ \E i \in 1..Len(config.AlgorithmRules) :
                ~regexpCompile(config.AlgorithmRules[i].Pattern)
        \/ config.Algorithm \notin Algorithms
        \/ \E i \in 1..Len(config.AlgorithmRules) :
                config.AlgorithmRules[i].Algorithm \notin Algorithms)
       => res.err = "error"

\* C23: for every one of the five algorithms and every level that reaches
\* the encoder factory (from the configured level, SetLevel or a rule), the
\* encoder is built, so Close never fails because of a level value.
C23_LevelNeverFailsClose ==
    \A h \in HandleIds :
        (cf[h].exists /\ cf[h].closed /\ cf[h].encoder.algo \in Algorithms)
            => /\ ~cf[h].encoder.err
               /\ cf[h].closeErr # "encoder"

\* C24: when a name matches several rules, selectAlgorithm returns the
\* algorithm and the level of the earliest matching rule in configured
\* order; a negative level is replaced by that algorithm's default level
\* (gzip 6, zstd 3, lz4 1, brotli 6, snappy 0), a level >= 0 is returned as
\* it is, 0 included; auto-tuning is not applied when a rule matched.
C24_EarliestRule ==
    res.op = "selectAlgorithm" =>
        LET rules == config.AlgorithmRules
            sel == res.target.sel
            M == {i \in 1..Len(rules) : MatchString(rules[i].pattern, res.name)}
        IN M # {} =>
            \E i \in M :
                /\ \A j \in M : i <= j
                /\ sel.algo = rules[i].algorithm
                /\ sel.level =
                     IF rules[i].level >= 0 THEN rules[i].level
                     ELSE CASE rules[i].algorithm = AlgorithmGzip -> 6
                            [] rules[i].algorithm = AlgorithmZstd -> 3
                            [] rules[i].algorithm = AlgorithmLZ4 -> 1
                            [] rules[i].algorithm = AlgorithmBrotli -> 6
                            [] rules[i].algorithm = AlgorithmSnappy -> 0

\* a name two rules match, the first with level 0 and the second with
\* another algorithm, selected with auto-tuning on and a size above the
\* threshold
C24_Witness ==
    /\ res.op = "selectAlgorithm"
    /\ Len(config.AlgorithmRules) = 2
    /\ \A i \in 1..2 : MatchString(config.AlgorithmRules[i].pattern, res.name)
    /\ config.AlgorithmRules[1].algorithm # config.AlgorithmRules[2].algorithm
    /\ config.AlgorithmRules[1].level = 0
    /\ config.AlgorithmRules[2].level = -1
    /\ config.EnableAutoTuning
    /\ res.target.size >= config.AutoTuneSizeThreshold
    /\ res.target.sel.level = 0

\* C25: auto-tune-monotone.  For every algorithm and every configured
\* level L0, with auto-tuning enabled and no matching rule, the level
\* selectAlgorithm returns for a file of size >= AutoTuneSizeThreshold is
\* at most L0.
C25_AutoTuneMonotone ==
    (/\ res.op = "selectAlgorithm"
     /\ config.EnableAutoTuning
     /\ firstMatch(config.AlgorithmRules, res.name) = 0
     /\ res.target.size >= config.AutoTuneSizeThreshold)
        => res.target.sel.level <= config.Level

\* C26: with no matching rule, selectAlgorithm returns the default
\* algorithm, and as level the configured level when auto-tuning is
\* disabled, the size is <= 0 or the size is below the threshold; otherwise
\* the table level of the algorithm for a size of at most ten megabytes /
\* above ten megabytes: gzip 4/3, zstd 2/1, brotli 4/3, lz4 1/1, snappy 0/0.
C26_DefaultPolicyLevel ==
    (res.op = "selectAlgorithm" /\ firstMatch(config.AlgorithmRules, res.name) = 0)
        => LET size == res.target.size
               sel == res.target.sel
               big == size > 10485760
           IN /\ sel.algo = config.Algorithm
              /\ sel.level =
                   IF \/ ~config.EnableAutoTuning
                      \/ size <= 0
                      \/ size < config.AutoTuneSizeThreshold
                   THEN config.Level
                   ELSE CASE sel.algo = AlgorithmGzip -> IF big THEN 3 ELSE 4
                          [] sel.algo = AlgorithmZstd -> IF big THEN 1 ELSE 2
                          [] sel.algo = AlgorithmBrotli -> IF big THEN 3 ELSE 4
                          [] sel.algo = AlgorithmLZ4 -> 1
                          [] sel.algo = AlgorithmSnappy -> 0

\* a file of exactly ten megabytes under the default policy with
\* auto-tuning on and configured level 9: zstd gets level 2
C26_Witness ==
    /\ res.op = "selectAlgorithm"
    /\ firstMatch(config.AlgorithmRules, res.name) = 0
    /\ config.EnableAutoTuning
    /\ config.Algorithm = AlgorithmZstd
    /\ config.Level = 9
    /\ res.target.size = 10485760
    /\ res.target.sel.level = 2

\* C27: with PreserveExtension false and StripExtension true, writing the
\* logical name data.txt stores the physical file data.zst (the logical
\* extension is replaced by the suffix), and a read request for data.txt
\* through the facade resolves to that file and yields the written bytes.
\* (Stated once no handle is open for writing.)
C27_ReplacedExtensionReadable ==
    \A n \in ExtNames :
        LET w == lastWrite[n]
            physical == Append(IF Len(n) > 1 THEN Front(n) ELSE n,
                               GetExtension(config.Algorithm))
        IN (/\ ~config.PreserveExtension /\ config.StripExtension
            /\ w.done /\ w.ok /\ w.data # <<>>
            /\ \A h \in HandleIds :
                  cf[h].exists /\ cf[h].flag = "O_CREATE" => cf[h].closed)
           => /\ Exists(files, physical)
              /\ OpenYield(config, files, n) = [err |-> "nil", data |-> w.data]

\* the bytes a handle has accepted and not yet added to the aggregate
\* counter: those staged in the buffer of an open handle
Pending(c) ==
    IF c.exists /\ ~c.closed /\ c.shouldCompress /\ c.hasBuffer
    THEN c.bytesWritten ELSE 0

\* C28: once every write handle is closed, the aggregate bytes_written
\* counter equals the total number of bytes accepted by Write across all
\* handles, for compressed, demoted and passthrough writes alike.  Stated
\* step by step: a Write that accepts n bytes raises the counter plus the
\* staged bytes by n, and a Close that succeeds moves the staged bytes of
\* its handle into the counter.
C28_BytesWrittenComplete ==
    [][\A h \in HandleIds :
          /\ (/\ cf[h].exists /\ ~cf[h].closed
              /\ cf'[h].writes = cf[h].writes + 1)
                => stats'.BytesWritten + Pending(cf'[h])
                     = stats.BytesWritten + Pending(cf[h])
                         + (cf'[h].bytesWritten - cf[h].bytesWritten)
          /\ (/\ cf[h].exists /\ cf[h].flag = "O_CREATE"
              /\ ~cf[h].closed /\ cf'[h].closed
              /\ cf'[h].closeErr = "nil")
                => stats'.BytesWritten = stats.BytesWritten + Pending(cf[h])]_vars

\* C29: after any sequence of successful writes to the same logical name,
\* interleaved with SetAlgorithm calls and with writes that alternate
\* between demoted and compressed sizes, Open(n) through the facade yields
\* the bytes of the most recent successful write to n.  (Stated for names
\* under the default policy and bytes that do not begin with a codec's
\* signature, once no handle is open for writing.)
C29_LatestWriteWins ==
    \A n \in LogicalNames :
        LET w == lastWrite[n]
        IN (/\ DefaultPolicy(n)
            /\ w.done /\ w.ok
            /\ IsCompressed(w.data) = NoAlgorithm
            /\ \A h \in HandleIds :
                  cf[h].exists /\ cf[h].flag = "O_CREATE" => cf[h].closed)
           => OpenYield(config, files, n) = [err |-> "nil", data |-> w.data]

\* C30: after a successful facade Remove(n), in any reachable store state
\* (including states where both n and a suffixed form of n exist), Open(n)
\* and Stat(n) through the facade fail with not-exist and ReadDir no longer
\* lists n.  (Stated for names that carry no compression suffix
\* themselves.)
C30_RemovedIsGone ==
    [][\A name \in ViewNames :
          (/\ Remove(name)
           /\ res'.err = "nil"
           /\ ~HasCompressionExtension(name))
              => LET listing == Project(memReadDir(DOMAIN files'), {})
                 IN /\ OpenYield(config, files', name).err = "notexist"
                    /\ VerbatimFirst(config, files', name) = <<>>
                    /\ \A i \in 1..Len(listing) : listing[i].name # name]_vars

\* C31: when k handles that use algorithm A are closed concurrently
\* (compressing or decompressing), the per-algorithm counter for A
\* increases by exactly k: no increment is lost under any interleaving of
\* the closes.
C31_NoLostIncrement ==
    (\A g \in Closers : cf[g].pc = "closed")
        => \A a \in Algorithms :
              stats.AlgorithmCounts[a] = Cardinality({g \in Closers : cf[g].algo = a})

\* C32: every read of the mutable configuration fields (algorithm, level)
\* made by OpenFile, handle construction and Close happens while the
\* facade's shared lock is held, so no such read interleaves with the
\* exclusive-locked mutation performed by SetAlgorithm or SetLevel.
C32_ReadsUnderLock ==
    [][\A g \in Openers :
          cf'[g].reads = cf[g].reads + 1 => (ReadHeld(g) /\ ~WriteLocked)]_vars

\* the bytes the physical file of a finalized handle stands for: the file
\* as it is, or what a stream of some codec in it decodes to
Finalized(c) ==
    LET at == IF Exists(files, c.compressedName) THEN c.compressedName
              ELSE c.originalName
        content == files[at]
    IN IF \E a \in Algorithms : IsStreamOf(a, content)
       THEN createDecompressor(CHOOSE a \in Algorithms : IsStreamOf(a, content),
                               content).out
       ELSE content

\* C33: under any interleaving of concurrent Write and Close calls on the
\* same handle, each Write either returns the closed-file error and
\* contributes nothing, or all of its bytes are included in the finalized
\* output; concurrent Close calls finalize the file and update the
\* counters exactly once.
C33_SerializedCalls ==
    LET c == cf["h1"]
        accepted == {g \in Writers : cf[g].pc = "done" /\ cf[g].err = "nil"}
        sizes == [g \in Writers |-> IF g \in accepted THEN Len(cf[g].p) ELSE 0]
    IN /\ c.baseCloses <= 1
       /\ (\A g \in Writers \cup SameClosers : cf[g].pc = "done")
            => /\ \A g \in Writers :
                    \/ cf[g].err = "closed" /\ cf[g].n = 0
                    \/ cf[g].err = "nil" /\ cf[g].n = Len(cf[g].p)
               /\ \A g \in SameClosers : cf[g].err = "nil"
               /\ c.baseCloses = 1
               /\ Len(Finalized(c)) = sizes["w1"] + sizes["w2"]
               /\ \/ accepted = {} /\ Finalized(c) = <<>>
                  \/ \E g \in accepted : accepted = {g} /\ Finalized(c) = cf[g].p
                  \/ accepted = Writers
                        /\ Finalized(c) \in {cf["w1"].p \o cf["w2"].p,
                                              cf["w2"].p \o cf["w1"].p}
               /\ ~shouldSkip(c.originalName)
                    => stats.FilesCompressed + stats.FilesSkipped
                         = (IF accepted = {} THEN 0 ELSE 1)
               /\ stats.AlgorithmCounts[AlgorithmGzip] = stats.FilesCompressed

\* one Write went in before the first Close and the other came after it
\* and was turned away, and both Closes have returned
C33_Witness ==
    /\ \A g \in Writers \cup SameClosers : cf[g].pc = "done"
    /\ \E g \in Writers : \E k \in Writers :
          /\ cf[g].err = "nil" /\ cf[k].err = "closed"
          /\ Finalized(cf["h1"]) = cf[g].p
    /\ cf["h1"].closeCalls = 2
    /\ stats.FilesCompressed = 1

\* C34: for two handles opened on distinct logical names, every
\* interleaving of their Write and Close operations leaves each logical
\* name readable through the facade with exactly the bytes written through
\* its own handle.
C34_DistinctNamesIndependent ==
    (/\ \A h \in TwoHandles : cf[h].exists /\ cf[h].closed /\ cf[h].closeErr = "nil"
     /\ cf["h1"].originalName # cf["h2"].originalName)
        => \A h \in TwoHandles :
              OpenYield(config, files, cf[h].originalName)
                  = [err |-> "nil", data |-> cf[h].data]

\* C35: if the underlying rename issued on demotion fails, Close still
\* returns success, and a subsequent Open of the logical name through the
\* facade reads back the written plaintext bytes, for every configured
\* default algorithm.  (Stated for default-policy names and bytes that do
\* not begin with a codec's signature.)
C35_RenameFailureHarmless ==
    \A h \in HandleIds :
        LET c == cf[h]
        IN (/\ c.exists /\ c.closed /\ c.flag = "O_CREATE"
            /\ DefaultPolicy(c.originalName)
            /\ Len(c.data) > 0 /\ Len(c.data) < config.MinSize
            /\ IsCompressed(c.data) = NoAlgorithm)
           => /\ c.closeErr = "nil"
              /\ OpenYield(config, files, c.originalName)
                    = [err |-> "nil", data |-> c.data]

\* the positions of a call in the list of calls a Close made
Positions(log, call) == {i \in 1..Len(log) : log[i] = call}

\* C36: on every path of the first Close of a handle (successful
\* compression, encoder construction, copy or close failure, demotion with
\* rename, decoder close, passthrough) the underlying file is closed
\* exactly once, any encoder or decoder is closed before it, and on the
\* demotion path the underlying file is closed before the rename is
\* issued.
C36_ReleaseOrder ==
    LET log == res.target.released
        base == Positions(log, "base.Close")
    IN (res.op = "Close" /\ res.target # <<>>)
        => /\ Cardinality(base) = 1
           /\ \A h \in HandleIds : cf[h].baseCloses = 1
           /\ \A i \in Positions(log, "encoder.Close") \cup Positions(log, "decoder.Close") :
                 \A b \in base : i < b
           /\ \A i \in Positions(log, "Rename") : \A b \in base : b < i
           /\ \A h \in HandleIds :
                 /\ cf[h].encoder.built => Positions(log, "encoder.Close") # {}
                 /\ cf[h].decompressor.kind # "none"
                       => Positions(log, "decoder.Close") # {}

\* a Close whose encoder could not be built has closed the underlying file
C36_Witness ==
    /\ res.op = "Close"
    /\ res.err = "encoder"
    /\ res.target # <<>>
    /\ res.target.released = <<"base.Close">>
    /\ \E h \in HandleIds : cf[h].closed /\ cf[h].writes > 0

\* a write handle in Writing-staged that is not yet closed
Staged(c) == c.exists /\ c.flag = "O_CREATE" /\ ~c.closed /\ c.shouldCompress /\ c.hasBuffer

\* C37: while a write handle is in Writing-staged and not yet closed,
\* Write only appends to the staging buffer and the handle's local byte
\* count: the physical files and every aggregate counter are unchanged by
\* Write, so no staged byte is readable through another handle before
\* Close.
C37_StagedWriteFrame ==
    [][\A h \in TwoHandles :
          (Staged(cf[h]) /\ cf'[h].writes = cf[h].writes + 1)
             => /\ files' = files
                /\ stats' = stats
                /\ \E p \in Chunks :
                      /\ cf'[h].writeBuffer = cf[h].writeBuffer \o p
                      /\ cf'[h].bytesWritten = cf[h].bytesWritten + Len(p)
                /\ \A g \in TwoHandles \ {h} : cf'[g] = cf[g]]_vars

\* a handle holds staged bytes while its physical file is still empty and
\* no counter has moved
C37_Witness ==
    \E h \in TwoHandles :
        /\ Staged(cf[h])
        /\ Len(cf[h].writeBuffer) > 0
        /\ cf[h].bytesWritten = Len(cf[h].writeBuffer)
        /\ Exists(files, cf[h].compressedName)
        /\ files[cf[h].compressedName] = <<>>
        /\ stats = ZeroStats

\* a read handle on which no call has been made since it was opened
Fresh(c) ==
    /\ c.exists /\ c.flag = "O_RDONLY" /\ ~c.closed
    /\ c.lastN = 0 /\ c.lastErr = "nil" /\ c.calls = 0 /\ c.closeCalls = 0

\* C38: on a read-only, non-create open of a non-empty, non-skipped file
\* whose algorithm was inferred from its physical suffix: if the first
\* bytes (up to 10) match a codec signature the handle enters Reading-coded
\* with the matched algorithm; if none match and the suffix is Brotli or
\* Snappy it enters Reading-coded with the suffix's algorithm; otherwise it
\* enters Reading-plain; in every case the underlying offset is back at 0
\* before the first caller Read.
C38_ReadSetupBySuffix ==
    \A h \in HandleIds :
        LET c == cf[h]
            content == files[c.compressedName]
            suffix == StripExtension(c.compressedName).algo
            detected == IsCompressed(SubSeq(content, 1, Min(10, Len(content))))
        IN (/\ res.op = "OpenFile" /\ res.err = "nil" /\ Fresh(c)
            /\ c.compressedName # c.originalName
            /\ Exists(files, c.compressedName) /\ content # <<>>
            /\ ~shouldSkip(c.originalName))
           => /\ c.basePos = 0
              /\ IF detected # NoAlgorithm
                 THEN c.decompressor.kind # "none" /\ c.readAlgo = detected
                 ELSE IF suffix \in {AlgorithmBrotli, AlgorithmSnappy}
                 THEN c.decompressor.kind # "none" /\ c.readAlgo = suffix
                 ELSE c.decompressor.kind = "none"

\* an open handle in Reading-coded
Coded(c) == c.exists /\ c.flag = "O_RDONLY" /\ ~c.closed /\ c.decompressor.kind = "ok"

\* C39: a Read on a Reading-coded handle never returns both n > 0 and
\* end-of-stream in the same call; after the last bytes have been
\* delivered the next Read returns 0 bytes with end-of-stream, so reading
\* a handle to completion always terminates with EOF.
C39_EOFAfterLastBytes ==
    /\ [](\A h \in HandleIds :
            Coded(cf[h]) => /\ ~(cf[h].lastN > 0 /\ cf[h].lastErr = "EOF")
                            /\ cf[h].lastErr = "EOF" => cf[h].decompressor.out = <<>>)
    /\ [][\A h \in HandleIds :
            (Coded(cf[h]) /\ Coded(cf'[h]) /\ cf[h].decompressor.out = <<>>
                /\ cf[h].lastN > 0 /\ cf'[h] # cf[h])
               => cf'[h].lastN = 0 /\ cf'[h].lastErr = "EOF"]_vars
    /\ \A h \in HandleIds :
            Coded(cf[h]) ~> (\/ ~Coded(cf[h])
                             \/ cf[h].lastN = 0 /\ cf[h].lastErr = "EOF")

\* the last bytes of a stream have been delivered, without end-of-stream
C39_Witness ==
    \E h \in HandleIds :
        /\ Coded(cf[h])
        /\ cf[h].decompressor.out = <<>>
        /\ cf[h].lastN > 0
        /\ cf[h].lastErr = "nil"
        /\ Len(cf[h].got) > cf[h].lastN

\* the algorithms in the order the claim gives: the configured one, then
\* Gzip, Zstd, Lz4, Brotli, Snappy
ClaimedOrder ==
    <<config.Algorithm, AlgorithmGzip, AlgorithmZstd, AlgorithmLZ4, AlgorithmBrotli,
      AlgorithmSnappy>>

\* the positions of ClaimedOrder whose suffixed form of the name exists
FormsOf(name) ==
    {i \in 1..Len(ClaimedOrder) :
        Exists(files, Append(name, extensionMap[ClaimedOrder[i]]))}

\* C40: Open for reading with strip_extension enabled probes n + suffix
\* for the configured algorithm first, then Gzip, Zstd, Lz4, Brotli, Snappy
\* in that order, and opens the first physical name whose Stat succeeds;
\* it opens the verbatim name n only when no suffixed form exists.
C40_ProbeOrder ==
    /\ \A h \in HandleIds :
          LET c == cf[h]
              hits == FormsOf(c.originalName)
          IN (c.exists /\ c.flag = "O_RDONLY" /\ config.StripExtension)
             => IF hits = {}
                THEN c.compressedName = c.originalName
                ELSE \E i \in hits :
                        /\ \A j \in hits : i <= j
                        /\ c.compressedName =
                              Append(c.originalName, extensionMap[ClaimedOrder[i]])
    /\ (res.op = "OpenFile" /\ res.err = "notexist")
          => FormsOf(res.name) = {} /\ ~Exists(files, res.name)

\* the configured algorithm's form was opened and read although a form
\* earlier in the fixed order exists as well
C40_Witness ==
    \E h \in HandleIds :
        /\ config.Algorithm = AlgorithmZstd
        /\ cf[h].exists /\ cf[h].flag = "O_RDONLY"
        /\ cf[h].compressedName = <<"a", "zst">>
        /\ Exists(files, <<"a", "gz">>)
        /\ Exists(files, <<"a">>)
        /\ cf[h].got = <<67>>
====
